---- MODULE Spec2Model ----
(***************************************************************************)
(* A model of the imiq infrastructure services:                            *)
(*   - the entity sync client (CreateEntity / UpdateEntity) talking to     *)
(*     the context store over HTTP,                                        *)
(*   - the start-up of the push-ingestion service (sensors),               *)
(*   - the scheduler of the collector service (main / worker / FetchAll).  *)
(* The repository holds two revisions of the fiware package, the one of    *)
(* fiware.go and the earlier one of unnamed/part_004; the variable         *)
(* revision says which one the running process was built from.             *)
(***************************************************************************)
EXTENDS Integers, Sequences, FiniteSets, TLC

\* ------------------------------------------------------------------ bounds
\* Number of calls of the entity sync client that run concurrently or one
\* after the other (each caller makes one call).
NumClients == 2
\* Number of bindings a configuration file may hold.
NumBindings == 2
\* Number of locations a binding may hold.
MaxLocations == 2

Clients == 1..NumClients

\* ------------------------------------------------- HTTP statuses (constants)
\* The three statuses the sync client tests for.
StatusCreated == 201
StatusNoContent == 204
StatusNotFound == 404
\* http.Post returned err != nil: there is no response and no status.
TransportError == 0

\* ------------------------------------------------------- attribute mappings
\* map[string]any: a function from a finite set of keys to values.
EmptyMap == [k \in {} |-> 0]

Put(m, k, v) == [x \in (DOMAIN m) \cup {k} |-> IF x = k THEN v ELSE m[x]]

Without(m, k) == [x \in (DOMAIN m) \ {k} |-> m[x]]

\* m2's entries written over m1's.
Merge(m1, m2) ==
  [x \in (DOMAIN m1) \cup (DOMAIN m2) |-> IF x \in DOMAIN m2 THEN m2[x] ELSE m1[x]]

\* The keys a caller may pass; "type" is what the collectors and the start-up
\* entities carry beside their attributes.
AttrKeys == {"type", "temperature"}

\* The one entity the callers of the sync client work on.
EntityIds == {"Sensor:Weather:Walter"}

\* The mappings a caller c may pass: every value names its writer, so that
\* the content of the store tells who wrote it.
CallerMaps(c) == UNION {[K -> {c}] : K \in SUBSET AttrKeys}

Revisions == {"fiware.go", "part_004"}

VARIABLES
  revision,   \* which revision of the fiware package is running
  store,      \* the context store: entity id -> attributes, for existing ids
  call,       \* per caller: the call of the sync client it is in, or made last
  \* the collector service (scheduler)
  cfg,        \* the configuration file's collectors, cfg.Collectors once read
  mpc,        \* where main is
  spawned,    \* iterations of main's "Start Workers" loop done
  signalled,  \* SIGINT / SIGTERM was delivered (sigintReceived holds a value)
  ctxDone,    \* cancel() was called: ctx.Done() is closed
  wg,         \* the WaitGroup's counter
  workers,    \* per goroutine started by wg.Go: the worker's state
  \* the push-ingestion service (sensors)
  sensorsRev, \* which revision of the service's main.go is running
  env,        \* the environment variables the service looks up
  spc,        \* where the service's main is
  bootIdx,    \* bootstrap creates of the current setup function done
  bootLog,    \* what the bootstrap creates returned, the errors being logged
  handlers,   \* the patterns registered with http.HandleFunc
  panicMsg,   \* the value a panic or log.Fatal ended the service with
  \* a worker's ticker against the clock
  now,        \* the time, in units of the clock
  timed,      \* per worker: its ticker, its passes and their durations
  \* the binary telemetry decoder
  pieces,     \* what the payload was put together from
  payload,    \* the argument of decodeSenseCapPayload
  dec,        \* the call: its remaining payload, its result, where it is
  \* the weather-station upload handler
  uploadRev,  \* which revision of the handler is running
  upload,     \* the request: its query, the handler's position and calls
  \* the LoRaWAN webhook handler
  hook,       \* the request: its body, the handler's position and calls
  \* the air-quality collector's fetchCsv
  csv,        \* the call: the response, the rows read, what it returns
  \* the restaurant collector's Fetch
  poi,        \* the call: the location, the scrape, what it returns
  \* the sync client's EnsureSubscription
  subs        \* the store's subscriptions, the calls made and the one under way

syncVars == <<revision, store, call>>

schedVars == <<cfg, mpc, spawned, signalled, ctxDone, wg, workers>>

sensVars == <<sensorsRev, env, spc, bootIdx, bootLog, handlers, panicMsg>>

tickVars == <<now, timed>>

\* The variables of the units that are looked at on their own.
decVars == <<pieces, payload, dec>>

upVars == <<uploadRev, upload>>

moreVars == <<hook, csv, poi, subs>>

unitVars == <<tickVars, decVars, upVars, moreVars>>

vars ==
  <<revision, store, call, cfg, mpc, spawned, signalled, ctxDone, wg, workers,
    sensorsRev, env, spc, bootIdx, bootLog, handlers, panicMsg, now, timed,
    pieces, payload, dec, uploadRev, upload, hook, csv, poi, subs>>

\* ---------------------------------------------------------- context store
\* The store's side of the two HTTP calls (an external service): an update of
\* an entity is answered 204 and of a missing one 404, a body that names "id"
\* or "type" in an update is rejected with 400; a create is answered 201, or
\* 422 when the entity already exists.

\* POST /v2/entities/{id}/attrs
StoreUpdateStatus(st, id, body) ==
  IF {"type", "id"} \cap DOMAIN body # {} THEN 400
  ELSE IF id \notin DOMAIN st THEN StatusNotFound
  ELSE StatusNoContent

StoreAfterUpdate(st, id, body) ==
  IF StoreUpdateStatus(st, id, body) = StatusNoContent
  THEN [st EXCEPT ![id] = Merge(st[id], body)]
  ELSE st

\* POST /v2/entities/
StoreCreateStatus(st, body) ==
  IF "id" \notin DOMAIN body THEN 400
  ELSE IF body["id"] \in DOMAIN st THEN 422
  ELSE StatusCreated

StoreAfterCreate(st, body) ==
  IF StoreCreateStatus(st, body) = StatusCreated
  THEN [x \in (DOMAIN st) \cup {body["id"]} |->
          IF x = body["id"] THEN body ELSE st[x]]
  ELSE st

\* A call that does not reach the store or that the store fails to serve.
FailureStatuses == {TransportError, 500}

\* ------------------------------------------------------ entity sync client
\* CreateEntity: data["id"] = id writes into the caller's mapping.
CreateData(id, data) == Put(data, "id", id)

\* A CreateEntity that takes the "already exists" conflict for success.
CreateResultConflictTolerated(status) ==
  IF status = TransportError THEN "error"
  ELSE IF status # StatusCreated /\ status # 422 THEN "error"
  ELSE "ok"

\* CreateEntity: err != nil, or any status but 201, is an error.
CreateResult(status) ==
  IF status = TransportError THEN "error"
  ELSE IF status # StatusCreated THEN "error"
  ELSE "ok"

\* UpdateEntity, fiware.go: dataCopied is data without "type".
UpdateBodyStripped(data) == Without(data, "type")

\* UpdateEntity, part_004: data is marshalled as it is.
UpdateBodyUnstripped(data) == data

UpdateBody(rev, data) ==
  IF rev = "fiware.go" THEN UpdateBodyStripped(data)
  ELSE UpdateBodyUnstripped(data)

\* UpdateEntity, fiware.go: what follows the update call's answer.
UpdateOutcomeChecked(status) ==
  IF status = TransportError THEN "error"
  ELSE IF status = StatusNotFound THEN "fallback"
  ELSE IF status # StatusNoContent THEN "error"
  ELSE "ok"

\* UpdateEntity, part_004: every status but 404 returns nil.
UpdateOutcomeUnchecked(status) ==
  IF status = TransportError THEN "error"
  ELSE IF status = StatusNotFound THEN "fallback"
  ELSE "ok"

UpdateOutcome(rev, status) ==
  IF rev = "fiware.go" THEN UpdateOutcomeChecked(status)
  ELSE UpdateOutcomeUnchecked(status)

\* A fallback that hands the stripped copy to CreateEntity.
FallbackDataCopied(data, dataCopied) == dataCopied

\* UpdateEntity: the mapping the fallback hands to CreateEntity is the
\* caller's data, not the stripped copy.
FallbackData(data, dataCopied) == data

NoCall ==
  [pc |-> "idle", op |-> "none", id |-> "", arg |-> EmptyMap, data |-> EmptyMap,
   updBody |-> EmptyMap, crtBody |-> EmptyMap,
   updStatus |-> -1, crtStatus |-> -1,
   nUpd |-> 0, nCrt |-> 0, res |-> "none"]

SyncInit ==
  /\ revision \in Revisions
  /\ store \in {EmptyMap, [i \in EntityIds |-> Put(EmptyMap, "id", i)]}
  /\ call = [c \in Clients |-> NoCall]

\* The create call of CreateEntity, answered with status: the record after it.
AfterCreate(r, status) ==
  [r EXCEPT !.pc = "returned",
            !.data = CreateData(r.id, r.data),
            !.crtBody = CreateData(r.id, r.data),
            !.crtStatus = status,
            !.nCrt = r.nCrt + 1,
            !.res = CreateResult(status)]

\* A caller calls CreateEntity(id, data): one create call.
CreateEntity(c, id, data) ==
  /\ call[c].pc # "fallback"
  /\ LET r == [NoCall EXCEPT !.op = "create", !.id = id, !.arg = data, !.data = data]
         body == CreateData(id, data)
     IN \/ /\ call' = [call EXCEPT ![c] = AfterCreate(r, StoreCreateStatus(store, body))]
           /\ store' = StoreAfterCreate(store, body)
        \/ \E s \in FailureStatuses :
             /\ call' = [call EXCEPT ![c] = AfterCreate(r, s)]
             /\ store' = store
  /\ UNCHANGED revision

\* The update call of UpdateEntity, answered with status: the record after it.
AfterUpdate(r, rev, status) ==
  LET out == UpdateOutcome(rev, status)
  IN [r EXCEPT !.pc = IF out = "fallback" THEN "fallback" ELSE "returned",
               !.updBody = UpdateBody(rev, r.data),
               !.updStatus = status,
               !.nUpd = r.nUpd + 1,
               !.res = IF out = "fallback" THEN "none" ELSE out]

\* A caller calls UpdateEntity(id, data): the update call and what the code
\* makes of its answer; a 404 leaves the call at the fallback.
UpdateEntity(c, id, data) ==
  /\ call[c].pc # "fallback"
  /\ LET r == [NoCall EXCEPT !.op = "upsert", !.id = id, !.arg = data, !.data = data]
         body == UpdateBody(revision, data)
     IN \/ /\ call' = [call EXCEPT ![c] =
                         AfterUpdate(r, revision, StoreUpdateStatus(store, id, body))]
           /\ store' = StoreAfterUpdate(store, id, body)
        \/ \E s \in FailureStatuses :
             /\ call' = [call EXCEPT ![c] = AfterUpdate(r, revision, s)]
             /\ store' = store
  /\ UNCHANGED revision

\* The fallback of UpdateEntity after a 404: CreateEntity(id, data).
UpdateEntityFallback(c) ==
  /\ call[c].pc = "fallback"
  /\ LET r == [call[c] EXCEPT
                 !.data = FallbackData(call[c].data, UpdateBody(revision, call[c].data))]
         body == CreateData(r.id, r.data)
     IN \/ /\ call' = [call EXCEPT ![c] = AfterCreate(r, StoreCreateStatus(store, body))]
           /\ store' = StoreAfterCreate(store, body)
        \/ \E s \in FailureStatuses :
             /\ call' = [call EXCEPT ![c] = AfterCreate(r, s)]
             /\ store' = store
  /\ UNCHANGED revision

\* The scheduler is not running.
SchedOff ==
  /\ cfg = << >>
  /\ mpc = "off"
  /\ spawned = 0
  /\ signalled = FALSE
  /\ ctxDone = FALSE
  /\ wg = 0
  /\ workers = << >>

\* The push-ingestion service is not running.
SensorsOff ==
  /\ sensorsRev = "none"
  /\ env = << >>
  /\ spc = "off"
  /\ bootIdx = 0
  /\ bootLog = << >>
  /\ handlers = {}
  /\ panicMsg = ""

\* No worker is looked at against the clock.
TickersOff ==
  /\ now = 0
  /\ timed = << >>

\* No payload is being decoded.
DecoderOff ==
  /\ pieces = << >>
  /\ payload = << >>
  /\ dec = [pc |-> "off"]

\* No upload is being handled.
UploadOff ==
  /\ uploadRev = "none"
  /\ upload = [pc |-> "off"]

\* No webhook request is being handled.
HookOff == hook = [pc |-> "off"]

\* No CSV is being fetched.
CsvOff == csv = [pc |-> "off"]

\* No restaurant is being fetched.
PoiOff == poi = [pc |-> "off"]

\* EnsureSubscription is not called.
SubsOff == subs = [pc |-> "off"]

MoreOff == HookOff /\ CsvOff /\ PoiOff /\ SubsOff

\* None of the units that are looked at on their own is running.
UnitsOff == TickersOff /\ DecoderOff /\ UploadOff /\ MoreOff

\* A caller of the sync client calls CreateEntity.
CallCreate(c) ==
  /\ call[c].pc = "idle"
  /\ \E id \in EntityIds : \E data \in CallerMaps(c) : CreateEntity(c, id, data)
  /\ UNCHANGED <<schedVars, sensVars, unitVars>>

\* A caller of the sync client calls UpdateEntity.
CallUpdate(c) ==
  /\ call[c].pc = "idle"
  /\ \E id \in EntityIds : \E data \in CallerMaps(c) : UpdateEntity(c, id, data)
  /\ UNCHANGED <<schedVars, sensVars, unitVars>>

\* The caller's UpdateEntity goes on after a 404.
CallFallback(c) ==
  /\ UpdateEntityFallback(c)
  /\ UNCHANGED <<schedVars, sensVars, unitVars>>

Init == SyncInit /\ SchedOff /\ SensorsOff /\ UnitsOff

Next ==
  \/ \E c \in Clients : CallCreate(c)
  \/ \E c \in Clients : CallUpdate(c)
  \/ \E c \in Clients : CallFallback(c)

\* Concurrent callers of the entity sync client against one store.
Spec == Init /\ [][Next]_vars

\* A caller that hands the mapping of its last call on to the next.
MapsHandedReused(c, last) == IF last.op = "none" THEN CallerMaps(c) ELSE {last.data}

\* The mappings a caller hands to its next call: FetchAll passes what Fetch
\* has just returned and the handlers what they have just built, a new
\* mapping for every call, whatever the last call did to the last mapping.
MapsHanded(c, last) == CallerMaps(c)

\* A caller's next call is CreateEntity, after its last call has returned.
NextCreate(c) ==
  /\ call[c].pc \in {"idle", "returned"}
  /\ \E id \in EntityIds : \E data \in MapsHanded(c, call[c]) : CreateEntity(c, id, data)
  /\ UNCHANGED <<schedVars, sensVars, unitVars>>

\* A caller's next call is UpdateEntity, after its last call has returned.
NextUpdate(c) ==
  /\ call[c].pc \in {"idle", "returned"}
  /\ \E id \in EntityIds : \E data \in MapsHanded(c, call[c]) : UpdateEntity(c, id, data)
  /\ UNCHANGED <<schedVars, sensVars, unitVars>>

\* The caller whose calls follow one another.
Repeater == CHOOSE c \in Clients : \A d \in Clients : c <= d

CallsNext ==
  \/ NextCreate(Repeater)
  \/ NextUpdate(Repeater)
  \/ \E c \in Clients \ {Repeater} : CallCreate(c)
  \/ \E c \in Clients \ {Repeater} : CallUpdate(c)
  \/ \E c \in Clients : CallFallback(c)

\* A caller of the entity sync client that calls it again and again, as a
\* worker does pass after pass and a handler request after request, while
\* the other callers' calls are under way.
SpecCalls == Init /\ [][CallsNext]_vars

\* ------------------------------------------------- the collector's scheduler
\* The constructors of collectorConstructors, by the name their collector gives.
CollectorNames == <<"OpenWeatherMap", "Parking", "Traffic", "Restaurant", "AirQuality">>

\* The id of the j-th location of the k-th binding of the configuration file.
LocationId(k, j) == <<k, j>>

\* An interval as time.NewTicker sees it: not positive, or positive. A tick of
\* a running ticker may come at any moment of a pass (see Tick), so that the
\* positive intervals of every length relative to a pass are covered by 1.
Intervals == {0, 1}

\* The k-th binding of a configuration file: a registered collector, an
\* interval and n locations.
Binding(k, interval, n) ==
  [name |-> CollectorNames[k], interval |-> interval,
   locations |-> [j \in 1..n |-> LocationId(k, j)]]

\* What ReadConfig can return for cfg.Collectors.
\* A name the configuration file may hold that no collector has.
UnknownName == "Weather"

\* The collectors of the configuration file: a binding names its collector
\* or a collector that does not exist.
Configs ==
  UNION {
    {[k \in 1..len |-> [Binding(k, iv[k], n[k]) EXCEPT
                          !.name = IF known[k] THEN @ ELSE UnknownName]] :
       iv \in [1..len -> Intervals], n \in [1..len -> 0..MaxLocations],
       known \in [1..len -> BOOLEAN]} :
    len \in 0..NumBindings}

\* availableCollectors[rawCollectorCfg.Name] is not nil for every binding.
AllCollectorsKnown(c) ==
  \A k \in 1..Len(c) : \E j \in DOMAIN CollectorNames : c[k].name = CollectorNames[j]

\* A ReadConfig that returns the bindings whatever they name.
ReadConfigUnchecked(c) == {"spawn", "exited"}

\* Where main is after config.ReadConfig: the file may not open or not be
\* YAML, and a binding that names an unknown collector is an error.
AfterReadConfig(c) == IF AllCollectorsKnown(c) THEN {"spawn", "exited"} ELSE {"exited"}

Goroutines == 1..NumBindings

\* A worker's record. The last six fields are the history of its passes, kept
\* for a worker that is watched: the locations fetched, fetched with success
\* and upserted in the pass that is running, whether something failed in it,
\* and how the last pass ended.
NoWorker ==
  [pc |-> "unborn", binding |-> Binding(1, 0, 0), i |-> 0, phase |-> "none",
   loc |-> << >>, first |-> FALSE, initialDone |-> FALSE, tick |-> FALSE,
   watch |-> FALSE, fetched |-> << >>, fetchedOk |-> << >>, upserted |-> << >>,
   failed |-> FALSE, lastPass |-> "none"]

\* The history of a watched worker with loc added to field f of it.
Noted(w, f, loc) ==
  IF ~w.watch THEN w
  ELSE CASE f = "fetched" -> [w EXCEPT !.fetched = Append(@, loc)]
         [] f = "fetchedOk" -> [w EXCEPT !.fetchedOk = Append(@, loc)]
         [] f = "upserted" -> [w EXCEPT !.upserted = Append(@, loc)]

SchedInit ==
  /\ revision = "fiware.go"
  /\ store = EmptyMap
  /\ call = << >>
  /\ cfg \in Configs
  /\ mpc = "constructors"
  /\ spawned = 0
  /\ signalled = FALSE
  /\ ctxDone = FALSE
  /\ wg = 0
  /\ workers = [g \in Goroutines |-> NoWorker]
  /\ SensorsOff
  /\ UnitsOff

\* The process runs: main has not returned, os.Exit was not called and no
\* goroutine has panicked.
Running == mpc \notin {"off", "exited", "crashed", "done"}

\* main, "Create collectors": a constructor that fails ends the process.
CreateCollectors ==
  /\ mpc = "constructors"
  /\ mpc' \in {"readConfig", "exited"}
  /\ UNCHANGED <<revision, store, call, sensVars, unitVars, cfg, spawned, signalled, ctxDone, wg, workers>>

\* main, "Read config": an error of ReadConfig ends the process.
ReadConfig ==
  /\ mpc = "readConfig"
  /\ mpc' \in AfterReadConfig(cfg)
  /\ UNCHANGED <<revision, store, call, sensVars, unitVars, cfg, spawned, signalled, ctxDone, wg, workers>>

\* The kernel delivers SIGINT or SIGTERM; the signal goroutine passes it on.
Signal ==
  /\ Running
  /\ ~signalled
  /\ signalled' = TRUE
  /\ UNCHANGED <<revision, store, call, sensVars, unitVars, cfg, mpc, spawned, ctxDone, wg, workers>>

\* Closures that share one loop variable: every worker reads the last binding.
CapturedBindingShared(cfgs, k) == cfgs[Len(cfgs)]

\* The binding the closure of iteration k hands to worker(): the loop
\* variable collectorConfig of that iteration.
CapturedBinding(cfgs, k) == cfgs[k]

\* main, "Start Workers": one iteration of the loop, wg.Go(func() {worker(..)}).
StartWorker ==
  /\ mpc = "spawn"
  /\ spawned < Len(cfg)
  /\ spawned' = spawned + 1
  /\ wg' = wg + 1
  /\ workers' = [workers EXCEPT ![spawned + 1] =
                   [workers[spawned + 1] EXCEPT !.pc = "started",
                                    !.binding = CapturedBinding(cfg, spawned + 1)]]
  /\ UNCHANGED <<revision, store, call, sensVars, unitVars, cfg, mpc, signalled, ctxDone>>

\* main: the loop is over, main blocks in <-sigintReceived.
AllStarted ==
  /\ mpc = "spawn"
  /\ spawned = Len(cfg)
  /\ mpc' = "waitSignal"
  /\ UNCHANGED <<revision, store, call, sensVars, unitVars, cfg, spawned, signalled, ctxDone, wg, workers>>

\* main, "Terminate": <-sigintReceived returns and cancel() is called.
Cancel ==
  /\ mpc = "waitSignal"
  /\ signalled
  /\ ctxDone' = TRUE
  /\ mpc' = "wait"
  /\ UNCHANGED <<revision, store, call, sensVars, unitVars, cfg, spawned, signalled, wg, workers>>

\* A wait that does not wait.
WaitReturnsAtOnce(counter) == TRUE

\* wg.Wait() returns when the counter is zero.
WaitReturns(counter) == counter = 0

\* main: wg.Wait() returns, "Goodbye", main returns.
Goodbye ==
  /\ mpc = "wait"
  /\ WaitReturns(wg)
  /\ mpc' = "done"
  /\ UNCHANGED <<revision, store, call, sensVars, unitVars, cfg, spawned, signalled, ctxDone, wg, workers>>

\* A worker that enters its loop without the call of FetchAll before it.
AfterNewTickerSelect == "select"

\* worker: what follows time.NewTicker, the call of FetchAll.
AfterNewTicker == "pass"

\* The worker's state at the top of FetchAll's loop, at location i.
AtLocation(w, i) == [w EXCEPT !.pc = "pass", !.i = i, !.phase = "fetch", !.loc = << >>]

\* The worker's state when FetchAll is called: at the first location, with
\* nothing fetched or upserted yet.
AtFirstLocation(w) ==
  [AtLocation(w, 1) EXCEPT !.fetched = << >>, !.fetchedOk = << >>,
                           !.upserted = << >>, !.failed = FALSE]

\* A FetchAll that returns at the first error.
AfterErrorReturn(w) ==
  [AtLocation(w, Len(w.binding.locations) + 1) EXCEPT !.failed = w.watch]

\* FetchAll after an error of Fetch or of UpdateEntity: the error is logged
\* and the loop goes on to the next location.
AfterError(w) == [AtLocation(w, w.i + 1) EXCEPT !.failed = w.watch]

\* A worker that gives up after a pass in which something failed.
AfterPassGiveUp(failed) == IF failed THEN "stopped" ELSE "select"

\* worker: where it is when FetchAll has returned, which returns nothing.
AfterPass(failed) == "select"

\* worker: time.NewTicker(Intervall), which panics unless the interval is
\* positive, then the first FetchAll.
WorkerStart(g) ==
  /\ Running
  /\ workers[g].pc = "started"
  /\ IF workers[g].binding.interval <= 0
     THEN /\ mpc' = "crashed"
          /\ UNCHANGED workers
     ELSE /\ workers' = [workers EXCEPT ![g] =
               IF AfterNewTicker = "pass"
               THEN [AtFirstLocation(workers[g]) EXCEPT !.first = TRUE]
               ELSE [workers[g] EXCEPT !.pc = "select"]]
          /\ UNCHANGED mpc
  /\ UNCHANGED <<revision, store, call, sensVars, unitVars, cfg, spawned, signalled, ctxDone, wg>>

\* The ticker of a worker is running from time.NewTicker to ticker.Stop().
TickerRunning(w) == w.pc \in {"pass", "select"}

\* The ticker's period elapses: a tick is put into ticker.C, which holds one
\* tick; a tick that finds one pending is dropped.
Tick(g) ==
  /\ Running
  /\ TickerRunning(workers[g])
  /\ ~workers[g].tick
  /\ workers' = [workers EXCEPT ![g].tick = TRUE]
  /\ UNCHANGED <<revision, store, call, sensVars, unitVars, cfg, mpc, spawned, signalled, ctxDone, wg>>

\* FetchAll: Collector.Fetch(location) returns; on an error the loop goes on
\* to the next location, else UpdateEntity is called with location.ID.
Fetch(g) ==
  /\ Running
  /\ workers[g].pc = "pass" /\ workers[g].phase = "fetch"
  /\ workers[g].i <= Len(workers[g].binding.locations)
  /\ \E ok \in BOOLEAN :
       LET location == workers[g].binding.locations[workers[g].i]
           w == Noted(workers[g], "fetched", location)
       IN workers' = [workers EXCEPT ![g] =
            IF ok
            THEN [Noted(w, "fetchedOk", location) EXCEPT
                    !.phase = "upsert", !.loc = location]
            ELSE AfterError(w)]
  /\ UNCHANGED <<revision, store, call, sensVars, unitVars, cfg, mpc, spawned, signalled, ctxDone, wg>>

\* FetchAll: UpdateEntity(orionHost, location.ID, result) returns; its error
\* is logged and the loop goes on to the next location.
Upsert(g) ==
  /\ Running
  /\ workers[g].pc = "pass" /\ workers[g].phase = "upsert"
  /\ \E res \in {"ok", "error"} :
       LET w == Noted(workers[g], "upserted", workers[g].loc)
       IN workers' = [workers EXCEPT ![g] =
            IF res = "ok" THEN AtLocation(w, w.i + 1) ELSE AfterError(w)]
  /\ UNCHANGED <<revision, store, call, sensVars, unitVars, cfg, mpc, spawned, signalled, ctxDone, wg>>

\* FetchAll returns after the last location: the worker is at its select.
EndPass(g) ==
  /\ Running
  /\ workers[g].pc = "pass" /\ workers[g].phase = "fetch"
  /\ workers[g].i > Len(workers[g].binding.locations)
  /\ workers' = [workers EXCEPT ![g] =
       [workers[g] EXCEPT !.pc = AfterPass(workers[g].failed),
                          !.i = 0, !.phase = "none",
                          !.initialDone = TRUE, !.first = FALSE,
                          !.fetched = << >>, !.fetchedOk = << >>,
                          !.upserted = << >>, !.failed = FALSE,
                          !.lastPass =
                            IF ~workers[g].watch THEN "none"
                            ELSE IF ~workers[g].failed THEN "clean"
                            ELSE IF workers[g].fetchedOk = << >>
                                 THEN "allFailed" ELSE "someFailed"]]
  /\ UNCHANGED <<revision, store, call, sensVars, unitVars, cfg, mpc, spawned, signalled, ctxDone, wg>>

\* A select that serves ticker.C before ctx.Done().
SelectReadyTickFirst(tick, done) ==
  IF tick THEN {"tick"} ELSE IF done THEN {"done"} ELSE {}

\* The cases of worker's select that can proceed; Go takes any one of them.
SelectReady(tick, done) ==
  (IF tick THEN {"tick"} ELSE {}) \cup (IF done THEN {"done"} ELSE {})

\* worker, case <-ticker.C: FetchAll.
SelectTick(g) ==
  /\ Running
  /\ workers[g].pc = "select"
  /\ "tick" \in SelectReady(workers[g].tick, ctxDone)
  /\ workers' = [workers EXCEPT ![g] = [AtFirstLocation(workers[g]) EXCEPT !.tick = FALSE]]
  /\ UNCHANGED <<revision, store, call, sensVars, unitVars, cfg, mpc, spawned, signalled, ctxDone, wg>>

\* worker, case <-ctx.Done(): the worker returns; the deferred ticker.Stop()
\* runs and wg.Go's wrapper calls wg.Done().
SelectDone(g) ==
  /\ Running
  /\ workers[g].pc = "select"
  /\ "done" \in SelectReady(workers[g].tick, ctxDone)
  /\ workers' = [workers EXCEPT ![g] = [workers[g] EXCEPT !.pc = "stopped", !.tick = FALSE]]
  /\ wg' = wg - 1
  /\ UNCHANGED <<revision, store, call, sensVars, unitVars, cfg, mpc, spawned, signalled, ctxDone>>

SchedNext ==
  \/ CreateCollectors
  \/ ReadConfig
  \/ Signal
  \/ StartWorker
  \/ AllStarted
  \/ Cancel
  \/ Goodbye
  \/ \E g \in Goroutines : WorkerStart(g)
  \/ \E g \in Goroutines : Tick(g)
  \/ \E g \in Goroutines : Fetch(g)
  \/ \E g \in Goroutines : Upsert(g)
  \/ \E g \in Goroutines : EndPass(g)
  \/ \E g \in Goroutines : SelectTick(g)
  \/ \E g \in Goroutines : SelectDone(g)

\* The collector service from its start to its end.
SpecSched == SchedInit /\ [][SchedNext]_vars

\* The configurations of NumBindings bindings with positive intervals, the
\* first binding with any number of locations and the others with one.
RunningConfigs ==
  {c \in Configs :
     /\ Len(c) = NumBindings
     /\ AllCollectorsKnown(c)
     /\ \A k \in 1..Len(c) :
          c[k].interval > 0 /\ (k > 1 => Len(c[k].locations) = 1)}

\* The collector service with such a configuration, main being about to
\* start the workers; the passes of the first worker are watched.
PassesInit ==
  /\ revision = "fiware.go"
  /\ store = EmptyMap
  /\ call = << >>
  /\ cfg \in RunningConfigs
  /\ mpc = "spawn"
  /\ spawned = 0
  /\ signalled = FALSE
  /\ ctxDone = FALSE
  /\ wg = 0
  /\ workers = [g \in Goroutines |-> [NoWorker EXCEPT !.watch = (g = 1)]]
  /\ SensorsOff
  /\ UnitsOff

PassesNext ==
  \/ Signal
  \/ StartWorker
  \/ AllStarted
  \/ Cancel
  \/ Goodbye
  \/ \E g \in Goroutines : WorkerStart(g)
  \/ \E g \in Goroutines : Tick(g)
  \/ \E g \in Goroutines : Fetch(g)
  \/ \E g \in Goroutines : Upsert(g)
  \/ \E g \in Goroutines : EndPass(g)
  \/ \E g \in Goroutines : SelectTick(g)
  \/ \E g \in Goroutines : SelectDone(g)

\* The workers and their passes, from the start of the workers on.
SpecPasses == PassesInit /\ [][PassesNext]_vars

\* --------------------------------------- start-up of the push-ingestion service
\* The repository holds two revisions of the service's main.go that create
\* entities at start-up: the one of main.go and the one of unnamed/part_002.
SensorsRevisions == {"main.go", "part_002"}

BRESSER_ID == "Sensor:Weather:Walter"
BRESSER_BUILDING_ID == "Building:UniversityG80"
SENSECAP_ID == "Sensor:Weather:Winfred"

UploadPattern == "/data/upload.php"

\* The entities setupBresser creates, in order.
BresserEntities(rev) ==
  IF rev = "main.go"
  THEN << [id |-> BRESSER_ID,
           data |-> [type |-> "WeatherObserved", humidity |-> 0, temperature |-> 0,
                     location |-> "52.141234471041685, 11.654583803189286",
                     additionalData |-> EmptyMap]] >>
  ELSE << [id |-> BRESSER_ID,
           data |-> [type |-> "Weather",
                     location |-> "52.141234471041685, 11.654583803189286"]],
          [id |-> BRESSER_BUILDING_ID,
           data |-> [type |-> "Building",
                     location |-> "52.14117022025373, 11.654859873233807"]] >>

\* The entity setupSenseCap creates.
SenseCapEntities(rev) ==
  << [id |-> SENSECAP_ID,
      data |-> [type |-> IF rev = "main.go" THEN "WeatherObserved" ELSE "Weather",
                humidity |-> 0, temperature |-> 0,
                location |-> "52.14614723277433, 11.661766246279447"]] >>

\* What the two variables can hold: unset, or a value; http.HandleFunc panics
\* on the empty pattern and on a pattern that is registered already.
EnvPasswords == {"unset", "SecretPw"}

EnvWebhookUrls == {"unset", "", "/data/upload.php", "/data/secret_url"}

SensorsInit ==
  /\ revision \in Revisions
  /\ store \in {[i \in S |-> Put(EmptyMap, "id", i)] :
                  S \in SUBSET {BRESSER_ID, BRESSER_BUILDING_ID, SENSECAP_ID}}
  /\ call = <<NoCall>>
  /\ SchedOff
  /\ UnitsOff
  /\ sensorsRev \in SensorsRevisions
  /\ env \in [WEATHER_STATION_PASSWORD : EnvPasswords,
              THE_THINGS_NET_WEBHOOK_URL : EnvWebhookUrls]
  /\ spc = "setupBresser"
  /\ bootIdx = 0
  /\ bootLog = << >>
  /\ handlers = {}
  /\ panicMsg = ""

\* setupBresser: os.LookupEnv("WEATHER_STATION_PASSWORD"), panic when unset.
LookupPassword ==
  /\ spc = "setupBresser"
  /\ IF env.WEATHER_STATION_PASSWORD = "unset"
     THEN spc' = "panicked" /\ panicMsg' = "Cannot lookup password"
     ELSE spc' = "bresserCreate" /\ panicMsg' = panicMsg
  /\ UNCHANGED <<syncVars, schedVars, unitVars, sensorsRev, env, bootIdx, bootLog, handlers>>

\* A start-up that ends when a bootstrap create fails.
AfterCreateErrorAbort(res, next) == IF res = "error" THEN "panicked" ELSE next

\* setupBresser, setupSenseCap: the error of CreateEntity is logged and
\* start-up goes on ("we continue anyway, maybe the entity already exists").
AfterCreateError(res, next) == next

\* One bootstrap create of a setup function: CreateEntity(FIWARE_URL, id, entity).
BootstrapCreate(at, entities, next) ==
  /\ spc = at
  /\ bootIdx < Len(entities)
  /\ CreateEntity(1, entities[bootIdx + 1].id, entities[bootIdx + 1].data)
  /\ bootLog' = Append(bootLog, [id |-> call'[1].id, res |-> call'[1].res,
                                 status |-> call'[1].crtStatus])
  /\ LET goOn == IF bootIdx + 1 < Len(entities) THEN at ELSE next
     IN /\ spc' = AfterCreateError(call'[1].res, goOn)
        /\ bootIdx' = IF spc' = at THEN bootIdx + 1 ELSE 0
  /\ UNCHANGED <<schedVars, unitVars, sensorsRev, env, handlers, panicMsg>>

BresserCreate ==
  BootstrapCreate("bresserCreate", BresserEntities(sensorsRev), "bresserHandle")

SenseCapCreate ==
  BootstrapCreate("senseCapCreate", SenseCapEntities(sensorsRev), "senseCapHandle")

\* http.HandleFunc(pattern, ..): panics on an empty pattern and on a second
\* registration of a pattern.
HandleFunc(at, pattern, next) ==
  /\ spc = at
  /\ IF pattern = ""
     THEN spc' = "panicked" /\ panicMsg' = "http: invalid pattern" /\ handlers' = handlers
     ELSE IF pattern \in handlers
     THEN /\ spc' = "panicked" /\ panicMsg' = "http: multiple registrations"
          /\ handlers' = handlers
     ELSE spc' = next /\ panicMsg' = panicMsg /\ handlers' = handlers \cup {pattern}
  /\ UNCHANGED <<syncVars, schedVars, unitVars, sensorsRev, env, bootIdx, bootLog>>

\* setupBresser: http.HandleFunc("/data/upload.php", ..).
BresserHandle == HandleFunc("bresserHandle", UploadPattern, "setupSenseCap")

\* setupSenseCap: os.LookupEnv("THE_THINGS_NET_WEBHOOK_URL"), panic when unset.
LookupWebhookUrl ==
  /\ spc = "setupSenseCap"
  /\ IF env.THE_THINGS_NET_WEBHOOK_URL = "unset"
     THEN spc' = "panicked" /\ panicMsg' = "Cannot lookup webhook url"
     ELSE spc' = "senseCapCreate" /\ panicMsg' = panicMsg
  /\ UNCHANGED <<syncVars, schedVars, unitVars, sensorsRev, env, bootIdx, bootLog, handlers>>

\* setupSenseCap: http.HandleFunc(thingsNetUrl, ..).
SenseCapHandle == HandleFunc("senseCapHandle", env.THE_THINGS_NET_WEBHOOK_URL, "listen")

\* main: http.ListenAndServe(":80", nil) serves, or returns an error that
\* log.Fatal ends the process with.
ListenAndServe ==
  /\ spc = "listen"
  /\ \/ spc' = "serving" /\ panicMsg' = panicMsg
     \/ spc' = "fatal" /\ panicMsg' = "listen tcp :80"
  /\ UNCHANGED <<syncVars, schedVars, unitVars, sensorsRev, env, bootIdx, bootLog, handlers>>

SensorsNext ==
  \/ LookupPassword
  \/ BresserCreate
  \/ BresserHandle
  \/ LookupWebhookUrl
  \/ SenseCapCreate
  \/ SenseCapHandle
  \/ ListenAndServe

\* The push-ingestion service from its start until it serves.
SpecSensors == SensorsInit /\ [][SensorsNext]_vars

\* ------------------------------------------ a worker's ticker against the clock
\* The worker of the scheduler again, with the time its passes take: a pass is
\* one step that begins and one that ends, the clock steps in between. A
\* goroutine that can run does so before the clock steps.
\* The last instant of the clock.
MaxTime == 7
\* The longest a pass takes.
MaxPassTime == 3

\* The workers looked at: one and another one, for what one does to the other.
TimedWorkers == {1, 2}

\* The intervals of their bindings (CollectorConfig.Intervall), all positive.
Periods == {2, 3}

\* How long a call of FetchAll may take: no time at all up to MaxPassTime.
PassTimes == 0..MaxPassTime

NoTicker ==
  [pc |-> "started", T |-> 0, start |-> 0, rem |-> 0, tick |-> FALSE,
   elapsed |-> 0, lastTick |-> 0, passes |-> 0, active |-> 0,
   lastStart |-> 0, lastEnd |-> 0, slow |-> FALSE]

TickerInit ==
  /\ revision = "fiware.go"
  /\ store = EmptyMap
  /\ call = << >>
  /\ SchedOff
  /\ SensorsOff
  /\ DecoderOff
  /\ UploadOff
  /\ MoreOff
  /\ now = 0
  /\ timed \in [TimedWorkers -> {[NoTicker EXCEPT !.T = p] : p \in Periods}]

\* A ticker that is armed anew when a pass has ended, as a sleep between the
\* passes would be.
TickDueAfterPass(w, t) == w.pc = "select" /\ t - w.lastEnd = w.T

\* time.NewTicker(d): the ticker fires every d from the time of the call on,
\* whatever the receiver does.
TickDue(w, t) == w.pc # "started" /\ t > w.start /\ (t - w.start) % w.T = 0

\* The worker's record when a call of FetchAll that takes d begins.
BeginPass(w, d) ==
  [w EXCEPT !.pc = "pass", !.rem = d, !.passes = w.passes + 1,
            !.active = w.active + 1, !.lastStart = now,
            !.slow = w.slow \/ d >= w.T]

\* worker: time.NewTicker(Intervall), then the first FetchAll.
TimedWorkerStart(g) ==
  /\ timed[g].pc = "started"
  /\ \E d \in PassTimes :
       timed' = [timed EXCEPT ![g] = BeginPass([timed[g] EXCEPT !.start = now], d)]
  /\ UNCHANGED <<syncVars, schedVars, sensVars, moreVars, decVars, upVars, now>>

\* FetchAll returns: the worker is at its select.
TimedPassEnds(g) ==
  /\ timed[g].pc = "pass"
  /\ timed[g].rem = 0
  /\ timed' = [timed EXCEPT ![g] =
       [timed[g] EXCEPT !.pc = "select", !.active = timed[g].active - 1,
                        !.lastEnd = now]]
  /\ UNCHANGED <<syncVars, schedVars, sensVars, moreVars, decVars, upVars, now>>

\* A worker that takes a tick wherever it is, as one that starts a goroutine
\* for every tick would.
TickReceivableAnywhere(pc) == pc \in {"pass", "select"}

\* Where the worker receives from ticker.C: at its select only, FetchAll
\* being called in the worker's own goroutine.
TickReceivable(pc) == pc = "select"

\* A receive from a channel that held every tick of a long pass: one is
\* taken, another is still there.
ReceiveOfMany(w) == w

\* A receive from ticker.C, whose buffer holds one tick: the channel is empty
\* afterwards.
Receive(w) == [w EXCEPT !.tick = FALSE]

\* worker, case <-ticker.C: FetchAll.
TimedSelectTick(g) ==
  /\ TickReceivable(timed[g].pc)
  /\ timed[g].tick
  /\ \E d \in PassTimes :
       timed' = [timed EXCEPT ![g] = BeginPass(Receive(timed[g]), d)]
  /\ UNCHANGED <<syncVars, schedVars, sensVars, moreVars, decVars, upVars, now>>

\* The worker can take a step without the clock stepping.
CanRun(w) ==
  \/ w.pc = "pass" /\ w.rem = 0
  \/ TickReceivable(w.pc) /\ w.tick

\* The worker's record one unit of the clock later: a pass goes on, and a
\* ticker that is due puts a tick into ticker.C unless one is pending there.
Later(w) ==
  LET due == TickDue(w, now + 1)
  IN [w EXCEPT !.rem = IF w.pc = "pass" /\ w.rem > 0 THEN w.rem - 1 ELSE w.rem,
               !.tick = w.tick \/ due,
               !.elapsed = IF due THEN w.elapsed + 1 ELSE w.elapsed,
               !.lastTick = IF due THEN now + 1 ELSE w.lastTick]

\* The clock steps.
TimePasses ==
  /\ now < MaxTime
  /\ \A g \in TimedWorkers : ~CanRun(timed[g])
  /\ now' = now + 1
  /\ timed' = [g \in TimedWorkers |-> Later(timed[g])]
  /\ UNCHANGED <<syncVars, schedVars, sensVars, moreVars, decVars, upVars>>

TickerNext ==
  \/ \E g \in TimedWorkers : TimedWorkerStart(g)
  \/ \E g \in TimedWorkers : TimedPassEnds(g)
  \/ \E g \in TimedWorkers : TimedSelectTick(g)
  \/ TimePasses

\* Workers, their tickers and the clock.
SpecTicker == TickerInit /\ [][TickerNext]_vars

\* --------------------------------------------- the binary telemetry decoder
\* decodeSenseCapPayload, one iteration of its loop per step. A byte is a
\* number of 0..255, a payload a sequence of bytes; payload[a:b] of the code
\* is the elements a+1..b here.
\* The number of frames a payload is put together from.
MaxFrames == 2

Bytes == 0..255

\* The frame ids the switch has a case for.
KnownFrameIds == {1, 74, 2, 75, 76, 3, 4, 5, 6}

\* Ids the switch has no case for: the neighbours of the known ids and the
\* ends of the byte range.
SomeUnknownFrameIds == {0, 7, 73, 77, 255}

\* float64(n) / d, kept as the quotient it is.
Float(n, d) == [float |-> n, div |-> d]

\* A little-endian reading of two bytes.
Uint16LittleEndian(p, a) == p[a + 1] + 256 * p[a + 2]

\* binary.BigEndian.Uint16(payload[a:a+2])
Uint16(p, a) == 256 * p[a + 1] + p[a + 2]

\* binary.BigEndian.Uint32(payload[a:a+4]), the number hi * 65536 + lo, kept
\* as its two halves; the int and the float64 it is converted to hold it.
Uint32(p, a) == [hi |-> Uint16(p, a), lo |-> Uint16(p, a + 2)]

\* The decimal digits of n, as fmt's %d prints them.
RECURSIVE Digits(_)
Digits(n) ==
  IF n < 10 THEN <<n>> ELSE Digits(n \div 10) \o <<n % 10>>

\* fmt.Sprintf("%d.%d", a, b)
SprintfVersion(a, b) == Digits(a) \o <<".">> \o Digits(b)

\* The length the case of frameId requires of the remaining payload.
FrameLength(frameId) ==
  CASE frameId \in {1, 74} -> 11
    [] frameId \in {2, 75} -> 9
    [] frameId = 76 -> 7
    [] frameId = 3 -> 2
    [] frameId = 4 -> 10
    [] frameId = 5 -> 5
    [] frameId = 6 -> 2

\* What the case of payload[0] writes into result.
FrameAttributes(p) ==
  CASE p[1] \in {1, 74} ->
         [temperature |-> Float(Uint16(p, 1), 10),
          humidity |-> p[4],
          lightIntensity |-> Uint32(p, 4),
          lightUV |-> Float(p[9], 10),
          windSpeed |-> Float(Uint16(p, 9), 10)]
    [] p[1] \in {2, 75} ->
         [windDirection |-> Uint16(p, 1),
          rainIntensity |-> Float(Uint32(p, 3), 1000),
          barometricPressure |-> Uint16(p, 7) * 10]
    [] p[1] = 76 ->
         [peakWindGust |-> Float(Uint16(p, 1), 10),
          cumulativeRainfall |-> Float(Uint32(p, 3), 1000)]
    [] p[1] = 3 ->
         [batteryLevel |-> p[2]]
    [] p[1] = 4 ->
         [batteryLevel |-> p[2],
          hardwareVersion |-> SprintfVersion(p[3], p[4]),
          softwareVersion |-> SprintfVersion(p[5], p[6]),
          uplinkInterval |-> Uint16(p, 6)]
    [] p[1] = 5 ->
         [uplinkInterval |-> Uint16(p, 1)]
    [] p[1] = 6 -> EmptyMap

\* A result that holds the attributes of the last frame only.
MergedReplacing(result, attrs) == attrs

\* A result in which the first value written to a key stays.
MergedKeepingFirst(result, attrs) == Merge(attrs, result)

\* result[key] = value for the attributes of a frame: a key that is in result
\* gets the new value.
Merged(result, attrs) == Merge(result, attrs)

\* A loop that leaves the payload as it is.
RestKept(p, n) == p

\* payload = payload[n:]
Rest(p, n) == SubSeq(p, n + 1, Len(p))

\* The call of decodeSenseCapPayload(p), before the loop's first test.
DecodeStart(p) ==
  [pc |-> "loop", rest |-> p, result |-> EmptyMap, iters |-> 0,
   isNil |-> FALSE, err |-> ""]

\* return nil, err
ReturnError(d, msg) ==
  [d EXCEPT !.pc = "returned", !.result = EmptyMap, !.isNil = TRUE, !.err = msg]

\* A decoder that returns what it has when a frame is cut short.
OnTooShortPartial(d) == [d EXCEPT !.pc = "returned"]

\* "frame too short": the remaining payload is shorter than the frame.
OnTooShort(d) == ReturnError(d, "frame too short")

\* A decoder that steps over a byte it does not know.
OnInvalidIdSkip(d) == [d EXCEPT !.rest = Rest(d.rest, 1), !.iters = d.iters + 1]

\* A decoder that stops at a byte it does not know and returns what it has.
OnInvalidIdPartial(d) == [d EXCEPT !.pc = "returned"]

\* The default case: "invalid frame id".
OnInvalidId(d) == ReturnError(d, "invalid frame id")

\* The loop's test and, the payload not being empty, one iteration.
Iteration(d) ==
  IF Len(d.rest) = 0
  THEN [d EXCEPT !.pc = "returned"]
  ELSE LET frameId == d.rest[1]
       IN IF frameId \notin KnownFrameIds
          THEN OnInvalidId(d)
          ELSE IF Len(d.rest) < FrameLength(frameId)
               THEN OnTooShort(d)
               ELSE [d EXCEPT !.result = Merged(d.result, FrameAttributes(d.rest)),
                              !.rest = Rest(d.rest, FrameLength(frameId)),
                              !.iters = d.iters + 1]

RECURSIVE RunDecoder(_)
RunDecoder(d) == IF d.pc = "returned" THEN d ELSE RunDecoder(Iteration(d))

\* What decodeSenseCapPayload(p) returns: the mapping, or nil, and the error.
decodeSenseCapPayload(p) ==
  LET d == RunDecoder(DecodeStart(p))
  IN [result |-> d.result, isNil |-> d.isNil, err |-> d.err]

\* The frames of TestSenseCapDecodeSuccess, by their first byte.
TestFrame(frameId) ==
  CASE frameId \in {1, 74} -> <<frameId, 1, 21, 65, 0, 0, 0, 94, 5, 0, 17>>
    [] frameId \in {2, 75} -> <<frameId, 1, 86, 0, 0, 0, 254, 39, 3>>
    [] frameId = 76 -> <<76, 0, 11, 0, 0, 6, 242>>
    [] frameId = 3 -> <<3, 100>>
    [] frameId = 4 -> <<4, 100, 1, 1, 1, 3, 0, 10, 5, 160>>
    [] frameId = 5 -> <<5, 0, 10, 5, 160>>
    [] frameId = 6 -> <<6, 255>>

\* A frame whose bytes all differ and have the high bit set.
HighFrame(frameId) ==
  [j \in 1..FrameLength(frameId) |-> IF j = 1 THEN frameId ELSE 256 - j]

\* What a payload is put together from: complete frames of every known id,
\* and single bytes that are no known id.
Pieces ==
  {TestFrame(f) : f \in KnownFrameIds} \cup {HighFrame(f) : f \in KnownFrameIds}
    \cup {<<b>> : b \in SomeUnknownFrameIds}

RECURSIVE Concat(_)
Concat(ss) == IF ss = << >> THEN << >> ELSE Head(ss) \o Concat(Tail(ss))

\* Up to MaxFrames pieces one after the other.
PieceLists == UNION {[1..n -> Pieces] : n \in 0..MaxFrames}

\* A payload arrives: pieces one after the other, cut at any length, or one
\* byte of any value.
DecoderInit ==
  /\ revision = "fiware.go"
  /\ store = EmptyMap
  /\ call = << >>
  /\ SchedOff
  /\ SensorsOff
  /\ TickersOff
  /\ UploadOff
  /\ MoreOff
  /\ \/ /\ pieces \in PieceLists
        /\ \E n \in 0..Len(Concat(pieces)) : payload = SubSeq(Concat(pieces), 1, n)
     \/ /\ \E b \in Bytes : pieces = << <<b>> >>
        /\ payload = Concat(pieces)
  /\ dec = DecodeStart(payload)

\* The loop's test finds bytes left and a frame is decoded.
DecodeFrame ==
  /\ dec.pc = "loop"
  /\ Len(dec.rest) > 0
  /\ Iteration(dec).pc = "loop"
  /\ dec' = Iteration(dec)
  /\ UNCHANGED <<syncVars, schedVars, sensVars, moreVars, tickVars, upVars, pieces, payload>>

\* The loop's test finds bytes left and the iteration returns an error.
DecodeFails ==
  /\ dec.pc = "loop"
  /\ Len(dec.rest) > 0
  /\ Iteration(dec).pc = "returned"
  /\ dec' = Iteration(dec)
  /\ UNCHANGED <<syncVars, schedVars, sensVars, moreVars, tickVars, upVars, pieces, payload>>

\* The loop's test finds the payload empty: return result, nil.
DecodeReturns ==
  /\ dec.pc = "loop"
  /\ Len(dec.rest) = 0
  /\ dec' = Iteration(dec)
  /\ UNCHANGED <<syncVars, schedVars, sensVars, moreVars, tickVars, upVars, pieces, payload>>

DecoderNext ==
  \/ DecodeFrame
  \/ DecodeFails
  \/ DecodeReturns

\* decodeSenseCapPayload on the payloads of DecoderInit.
SpecDecoder == DecoderInit /\ [][DecoderNext]_vars

\* The same, the call running on: the goroutine of the request is scheduled
\* until it returns.
SpecDecoderFair == SpecDecoder /\ WF_vars(DecoderNext)

\* ---------------------------------------------- the weather-station upload
\* The handler of /data/upload.php, in the three revisions the repository
\* holds: the one of main.go, the one of unnamed/part_002 and the earlier one
\* of unnamed/part_001. A query (url.Values) is a mapping of keys to
\* sequences of values.
UploadRevisions == {"main.go", "part_002", "part_001"}

ID_KEY == "wsid"
PASSWORD_KEY == "wspw"

\* http.StatusBadRequest, and the status of a handler that returns without
\* having written one.
StatusBadRequest == 400
StatusOK == 200

\* The value of WEATHER_STATION_PASSWORD.
ExpectedPassword == "SecretPw"

\* The id of the entity the handler of part_001 updates.
OFFICE_ID == "Sensor:Weather:ImiqOffice"

\* url.Values.Get: the first value of the key, or "".
Get(params, key) == IF key \in DOMAIN params THEN params[key][1] ELSE ""

\* A Del that deletes nothing.
DelNothing(params, key) == params

\* url.Values.Del and delete(params, key).
Del(params, key) == Without(params, key)

\* An attribute of the entity: a type and a value.
Attribute(typ, value) == [type |-> typ, value |-> value]

\* A move that leaves out an attribute whose key the query does not hold.
MoveIfPresent(st, fromKey, toKey, typ) ==
  IF fromKey \notin DOMAIN st.params THEN st
  ELSE [params |-> Del(st.params, fromKey),
        entity |-> Put(st.entity, toKey, Attribute(typ, st.params[fromKey][1]))]

\* move(&params, fromKey, entity, toKey, typ) on the pair of the two mappings.
Move(st, fromKey, toKey, typ) ==
  [params |-> Del(st.params, fromKey),
   entity |-> Put(st.entity, toKey, Attribute(typ, Get(st.params, fromKey)))]

\* The calls of move for the building, in order.
BuildingMoves ==
  << <<"intem", "temperature", "float">>, <<"inhum", "humidity", "float">> >>

\* The calls of move for the station, in order.
StationMoves ==
  << <<"t1hum", "humidity", "float">>, <<"t1tem", "temperature", "float">>,
     <<"rbar", "airPressure", "float">>, <<"abar", "airPressureAbsolute", "float">>,
     <<"t1wdir", "windDirection", "float">>, <<"t1ws", "windSpeed", "float">>,
     <<"t1uvi", "uvIndex", "float">>, <<"t1rainra", "rain", "float">>,
     <<"t1solrad", "lightIntensity", "float">>,
     <<"t1chill", "windChillTemperature", "float">>,
     <<"t1heat", "heatIndexTemperature", "float">>,
     <<"t1feels", "feelsLikeTemperature", "float">>,
     <<"t1dew", "dewPointTemperature", "float">>,
     <<"t1rainhr", "rainHourly", "float">>, <<"t1raindy", "rainDaily", "float">>,
     <<"t1rainwy", "rainWeekly", "float">>, <<"t1rainmth", "rainMonthly", "float">>,
     <<"t1rainyr", "rainYearly", "float">>, <<"t1ws10mav", "windSpeed10Min", "float">>,
     <<"t1wgust", "windGust", "float">>, <<"datetime", "datetime", "string">> >>

RECURSIVE MoveAll(_, _)
MoveAll(st, moves) ==
  IF moves = << >> THEN st
  ELSE MoveAll(Move(st, Head(moves)[1], Head(moves)[2], Head(moves)[3]), Tail(moves))

\* The calls of UpdateEntity the handler goes on to with params, the query
\* without the keys deleted so far: the entity ids and the entities, in order.
UploadUpserts(rev, params) ==
  CASE rev = "main.go" ->
         << [id |-> BRESSER_ID,
             entity |-> [humidity |-> Attribute("float", Get(params, "t1hum")),
                         temperature |-> Attribute("float", Get(params, "t1tem")),
                         additionalData |-> Attribute("any", params)]] >>
    [] rev = "part_001" ->
         << [id |-> OFFICE_ID,
             entity |-> [type |-> "WeatherObserved",
                         humidity |-> Attribute("float", Get(params, "t1hum")),
                         temperature |-> Attribute("float", Get(params, "t1tem")),
                         location |-> Attribute("geo:point",
                                        "52.141234471041685, 11.654583803189286"),
                         additionalData |-> params]] >>
    [] rev = "part_002" ->
         LET building == MoveAll([params |-> params, entity |-> EmptyMap], BuildingMoves)
             station == MoveAll([params |-> building.params, entity |-> EmptyMap],
                                StationMoves)
         IN << [id |-> BRESSER_BUILDING_ID, entity |-> building.entity],
               [id |-> BRESSER_ID,
                entity |-> Put(station.entity, "additionalData",
                               Attribute("any", station.params))] >>

\* Where the handler is after http.Error(w, "invalid password", ..): it
\* returns, but for the handler of part_001, which has no return there.
AfterInvalidPassword(rev) == IF rev = "part_001" THEN "upsert" ELSE "returned"

\* The request as it is received.
Received(query) ==
  [pc |-> "received", query |-> query, params |-> query, status |-> 0,
   message |-> "", todo |-> << >>, calls |-> << >>]

\* The handler's checks of the query, up to the first call of UpdateEntity or
\* the return before it.
Checked(rev, u) ==
  LET p0 == IF rev = "part_002" THEN Del(u.query, "apiver") ELSE u.query
      p1 == Del(p0, ID_KEY)
      p2 == Del(p1, PASSWORD_KEY)
  IN IF ID_KEY \notin DOMAIN p0
     THEN [u EXCEPT !.pc = "returned", !.params = p0, !.status = StatusBadRequest,
                    !.message = "wsid is missing"]
     ELSE IF PASSWORD_KEY \notin DOMAIN p1
     THEN [u EXCEPT !.pc = "returned", !.params = p1, !.status = StatusBadRequest,
                    !.message = "wspw is missing"]
     ELSE IF p1[PASSWORD_KEY][1] # ExpectedPassword
     THEN [u EXCEPT !.pc = AfterInvalidPassword(rev), !.params = p2,
                    !.status = StatusBadRequest, !.message = "invalid password",
                    !.todo = IF AfterInvalidPassword(rev) = "upsert"
                             THEN UploadUpserts(rev, p2) ELSE << >>]
     ELSE [u EXCEPT !.pc = "upsert", !.params = p2, !.todo = UploadUpserts(rev, p2)]

\* The keys a query may hold beside the two control keys, and a value.
SensorKeys == {"apiver", "t1tem", "t1hum", "intem", "softwaretype"}

\* What a query may hold under wspw: the first value counts.
PasswordValues ==
  {<<ExpectedPassword>>, <<"Guess">>, <<"">>, <<ExpectedPassword, "Guess">>,
   <<"Guess", ExpectedPassword>>}

\* The queries of the requests.
Queries ==
  UNION {
    {[k \in K |-> IF k = PASSWORD_KEY THEN pw
                  ELSE IF k = ID_KEY THEN <<"Station1">> ELSE <<"21.5">>] :
       pw \in PasswordValues} :
    K \in SUBSET (SensorKeys \cup {ID_KEY, PASSWORD_KEY})}

\* A handler that answers 500 when a call of UpdateEntity has failed.
AnswerStatusOfStore(written, calls) ==
  IF written # 0 THEN written
  ELSE IF \E n \in DOMAIN calls : calls[n].res = "error" THEN 500 ELSE StatusOK

\* The status of the answer when the handler returns after its calls of
\* UpdateEntity: the one it has written, or 200, an error of UpdateEntity
\* being logged and nothing else.
AnswerStatus(written, calls) == IF written = 0 THEN StatusOK ELSE written

\* A request for /data/upload.php is received.
UploadInit ==
  /\ revision = "fiware.go"
  /\ store = EmptyMap
  /\ call = << >>
  /\ SchedOff
  /\ SensorsOff
  /\ TickersOff
  /\ DecoderOff
  /\ MoreOff
  /\ uploadRev \in UploadRevisions
  /\ \E query \in Queries : upload = Received(query)

\* The handler checks the query and answers 400 or goes on.
UploadCheck ==
  /\ upload.pc = "received"
  /\ upload' = Checked(uploadRev, upload)
  /\ UNCHANGED <<syncVars, schedVars, sensVars, moreVars, tickVars, decVars, uploadRev>>

\* The handler's next call of UpdateEntity returns; an error is logged.
UploadUpsert ==
  /\ upload.pc = "upsert"
  /\ upload.todo # << >>
  /\ \E res \in {"ok", "error"} :
       upload' = [upload EXCEPT
                    !.todo = Tail(@),
                    !.calls = Append(@, [id |-> Head(upload.todo).id,
                                         entity |-> Head(upload.todo).entity,
                                         res |-> res])]
  /\ UNCHANGED <<syncVars, schedVars, sensVars, moreVars, tickVars, decVars, uploadRev>>

\* The handler returns after its last call: the answer is 200 unless a
\* status was written.
UploadReturn ==
  /\ upload.pc = "upsert"
  /\ upload.todo = << >>
  /\ upload' = [upload EXCEPT
                  !.pc = "returned",
                  !.status = AnswerStatus(upload.status, upload.calls)]
  /\ UNCHANGED <<syncVars, schedVars, sensVars, moreVars, tickVars, decVars, uploadRev>>

UploadNext ==
  \/ UploadCheck
  \/ UploadUpsert
  \/ UploadReturn

\* The upload handler on one request.
SpecUpload == UploadInit /\ [][UploadNext]_vars

\* -------------------------------------------------- the LoRaWAN webhook
\* The handler of the webhook url and ProcessWebhook. A text is a sequence
\* of characters, each a string of length one.
B64Chars ==
  <<"A", "B", "C", "D", "E", "F", "G", "H", "I", "J", "K", "L", "M", "N", "O", "P",
    "Q", "R", "S", "T", "U", "V", "W", "X", "Y", "Z", "a", "b", "c", "d", "e", "f",
    "g", "h", "i", "j", "k", "l", "m", "n", "o", "p", "q", "r", "s", "t", "u", "v",
    "w", "x", "y", "z", "0", "1", "2", "3", "4", "5", "6", "7", "8", "9", "+", "/">>

\* The character of a 6-bit value, and the value of a character.
B64Char(v) == B64Chars[v + 1]
B64Value(c) == (CHOOSE i \in DOMAIN B64Chars : B64Chars[i] = c) - 1
IsB64Char(c) == \E i \in DOMAIN B64Chars : B64Chars[i] = c

\* base64.StdEncoding.EncodeToString, the sender's side: three bytes make
\* four characters, the last group is padded with "=".
RECURSIVE EncodeToString(_)
EncodeToString(src) ==
  IF src = << >> THEN << >>
  ELSE IF Len(src) = 1
  THEN <<B64Char(src[1] \div 4), B64Char((src[1] % 4) * 16), "=", "=">>
  ELSE IF Len(src) = 2
  THEN <<B64Char(src[1] \div 4), B64Char((src[1] % 4) * 16 + src[2] \div 16),
         B64Char((src[2] % 16) * 4), "=">>
  ELSE <<B64Char(src[1] \div 4), B64Char((src[1] % 4) * 16 + src[2] \div 16),
         B64Char((src[2] % 16) * 4 + src[3] \div 64), B64Char(src[3] % 64)>>
       \o EncodeToString(SubSeq(src, 4, Len(src)))

\* base64.StdEncoding.DecodeString on a text without line breaks: groups of
\* four characters, padding required and only at the end; the bits left over
\* in a padded group are not looked at.
RECURSIVE DecodeString(_)
DecodeString(text) ==
  IF text = << >> THEN [payload |-> << >>, err |-> FALSE]
  ELSE IF Len(text) < 4 THEN [payload |-> << >>, err |-> TRUE]
  ELSE
    LET q == SubSeq(text, 1, 4)
        rest == SubSeq(text, 5, Len(text))
        v(j) == B64Value(q[j])
        b1 == v(1) * 4 + v(2) \div 16
        b2 == (v(2) % 16) * 16 + v(3) \div 4
        b3 == (v(3) % 4) * 64 + v(4)
        tail == DecodeString(rest)
    IN IF \A j \in 1..4 : IsB64Char(q[j])
       THEN IF tail.err THEN [payload |-> << >>, err |-> TRUE]
            ELSE [payload |-> <<b1, b2, b3>> \o tail.payload, err |-> FALSE]
       ELSE IF IsB64Char(q[1]) /\ IsB64Char(q[2]) /\ q[3] = "=" /\ q[4] = "="
               /\ rest = << >>
       THEN [payload |-> <<b1>>, err |-> FALSE]
       ELSE IF IsB64Char(q[1]) /\ IsB64Char(q[2]) /\ IsB64Char(q[3]) /\ q[4] = "="
               /\ rest = << >>
       THEN [payload |-> <<b1, b2>>, err |-> FALSE]
       ELSE [payload |-> << >>, err |-> TRUE]

\* json.NewDecoder(r).Decode(&msg) for the two fields ProcessWebhook reads:
\* a body that is no JSON object and a field that is no string are errors,
\* an absent field leaves the empty string.
JsonDecode(body) ==
  IF body.syntax # "object" \/ body.device_id.kind = "number"
     \/ body.frm_payload.kind = "number"
  THEN [err |-> TRUE, DeviceID |-> "", FrmPayload |-> << >>]
  ELSE [err |-> FALSE,
        DeviceID |-> IF body.device_id.kind = "string" THEN body.device_id.text ELSE "",
        FrmPayload |-> IF body.frm_payload.kind = "string" THEN body.frm_payload.text
                       ELSE << >>]

\* ProcessWebhook(r).
ProcessWebhook(body) ==
  LET msg == JsonDecode(body)
      decoded == DecodeString(msg.FrmPayload)
  IN IF msg.err THEN [err |-> TRUE, DeviceID |-> "", Payload |-> << >>]
     ELSE IF decoded.err THEN [err |-> TRUE, DeviceID |-> "", Payload |-> << >>]
     ELSE [err |-> FALSE, DeviceID |-> msg.DeviceID, Payload |-> decoded.payload]

\* A handler that takes every device.
DeviceAcceptedAlways(deviceId) == TRUE

\* The handler's check of the device id.
DeviceAccepted(deviceId) == deviceId = "winfred"

\* A mapping that keeps one key at most.
DataMappedOneKey(data) ==
  [key \in (IF data = EmptyMap THEN {} ELSE {CHOOSE k \in DOMAIN data : TRUE}) |->
     [type |-> "float", value |-> data[key]]]

\* dataMapped: every decoded value with its type.
DataMapped(data) == [key \in DOMAIN data |-> [type |-> "float", value |-> data[key]]]

\* What the payloads of the requests are put together from: short frames, a
\* byte that is no frame id and a frame cut short.
HookPieces == {TestFrame(3), HighFrame(6), TestFrame(5), <<7>>, <<5, 0>>}

HookPayloads == {Concat(l) : l \in UNION {[1..n -> HookPieces] : n \in 0..MaxFrames}}

\* Texts that are no base64: no padding, a character outside the alphabet,
\* padding at the start, data after the padding, padding inside a group.
BadTexts ==
  {<<"A", "w">>, <<"A", "?", "=", "=">>, <<"=", "w", "=", "=">>,
   <<"A", "w", "=", "=", "A", "w", "=", "=">>, <<"A", "w", "=", "A">>}

\* The values a body may hold under frm_payload and under device_id.
PayloadFields ==
  {[kind |-> "string", text |-> EncodeToString(p)] : p \in HookPayloads}
  \cup {[kind |-> "string", text |-> t] : t \in BadTexts}
  \cup {[kind |-> "absent", text |-> << >>], [kind |-> "number", text |-> << >>]}

DeviceFields ==
  {[kind |-> "string", text |-> "winfred"], [kind |-> "string", text |-> "walter"],
   [kind |-> "absent", text |-> ""], [kind |-> "number", text |-> ""]}

\* The bodies of the requests.
Bodies ==
  {[syntax |-> "malformed", device_id |-> [kind |-> "absent", text |-> ""],
    frm_payload |-> [kind |-> "absent", text |-> << >>]]}
  \cup {[syntax |-> "object", device_id |-> d, frm_payload |-> f] :
          d \in DeviceFields, f \in PayloadFields}

\* A request for the webhook url is received.
HookInit ==
  /\ revision = "fiware.go"
  /\ store = EmptyMap
  /\ call = << >>
  /\ SchedOff
  /\ SensorsOff
  /\ TickersOff
  /\ DecoderOff
  /\ UploadOff
  /\ CsvOff
  /\ PoiOff
  /\ SubsOff
  /\ \E body \in Bodies :
       hook = [pc |-> "received", body |-> body, passed |-> << >>, deviceId |-> "",
               payload |-> << >>, data |-> EmptyMap, status |-> 0, message |-> "",
               calls |-> << >>]

\* http.Error(w, message, http.StatusBadRequest) and return.
HookRejected(h, message) ==
  [h EXCEPT !.pc = "returned", !.status = StatusBadRequest, !.message = message]

\* The handler calls ProcessWebhook(r.Body).
HookProcess ==
  /\ hook.pc = "received"
  /\ LET resp == ProcessWebhook(hook.body)
     IN hook' = IF resp.err THEN HookRejected(hook, "invalid body")
                ELSE [hook EXCEPT !.pc = "processed", !.passed = Append(@, "body"),
                                  !.deviceId = resp.DeviceID, !.payload = resp.Payload]
  /\ UNCHANGED <<syncVars, schedVars, sensVars, tickVars, decVars, upVars, csv, poi, subs>>

\* The handler compares the device id.
HookDevice ==
  /\ hook.pc = "processed"
  /\ hook' = IF ~DeviceAccepted(hook.deviceId) THEN HookRejected(hook, "invalid body")
             ELSE [hook EXCEPT !.pc = "device", !.passed = Append(@, "device")]
  /\ UNCHANGED <<syncVars, schedVars, sensVars, tickVars, decVars, upVars, csv, poi, subs>>

\* The handler calls decodeSenseCapPayload(resp.Payload).
HookDecode ==
  /\ hook.pc = "device"
  /\ LET d == decodeSenseCapPayload(hook.payload)
     IN hook' = IF d.err # "" THEN HookRejected(hook, "invalid payload")
                ELSE [hook EXCEPT !.pc = "decoded", !.passed = Append(@, "payload"),
                                  !.data = d.result]
  /\ UNCHANGED <<syncVars, schedVars, sensVars, tickVars, decVars, upVars, csv, poi, subs>>

\* The handler calls UpdateEntity with dataMapped, logs an error and returns.
HookUpdate ==
  /\ hook.pc = "decoded"
  /\ \E res \in {"ok", "error"} :
       LET made == Append(hook.calls, [id |-> SENSECAP_ID,
                                       entity |-> DataMapped(hook.data),
                                       res |-> res])
       IN hook' = [hook EXCEPT
                     !.pc = "returned",
                     !.status = AnswerStatus(hook.status, made),
                     !.calls = made]
  /\ UNCHANGED <<syncVars, schedVars, sensVars, tickVars, decVars, upVars, csv, poi, subs>>

HookNext ==
  \/ HookProcess
  \/ HookDevice
  \/ HookDecode
  \/ HookUpdate

\* The webhook handler on one request.
SpecHook == HookInit /\ [][HookNext]_vars

\* The two handlers of pushed data, each on one request.
PushInit == UploadInit \/ HookInit

PushNext == UploadNext \/ HookNext

SpecPush == PushInit /\ [][PushNext]_vars

\* ------------------------------------------------ the air-quality fetchCsv
\* fetchCsv(stationId, component) on the response of one request. A cell is a
\* sequence of characters; a line of the file is its cells, or is marked as
\* one the CSV reader cannot parse (a bare quote in a field).
RowCeiling == 50

\* Additional lines after the leading ones.
MaxTailRows == 2

DecimalDigits == <<"0", "1", "2", "3", "4", "5", "6", "7", "8", "9">>

IsDecimalDigit(c) == \E i \in DOMAIN DecimalDigits : DecimalDigits[i] = c

DigitValue(c) == (CHOOSE i \in DOMAIN DecimalDigits : DecimalDigits[i] = c) - 1

RECURSIVE DecimalValue(_)
DecimalValue(ds) ==
  IF ds = << >> THEN 0
  ELSE DecimalValue(SubSeq(ds, 1, Len(ds) - 1)) * 10 + DigitValue(ds[Len(ds)])

\* strconv.Atoi on a short cell: an optional sign and at least one digit.
Atoi(s) ==
  LET signed == s # << >> /\ s[1] \in {"+", "-"}
      ds == IF signed THEN Tail(s) ELSE s
  IN IF ds = << >> \/ \E j \in DOMAIN ds : ~IsDecimalDigit(ds[j])
     THEN [num |-> 0, err |-> TRUE]
     ELSE [num |-> IF signed /\ s[1] = "-" THEN 0 - DecimalValue(ds) ELSE DecimalValue(ds),
           err |-> FALSE]

\* A line with the cells given, and one the reader cannot parse.
Line(cells) == [cells |-> cells, bareQuote |-> FALSE]
BareQuoteLine == [cells |-> << <<"t">>, <<"1">> >>, bareQuote |-> TRUE]

\* reader.Read() on line number n of the file: io.EOF after the last line, a
\* parse error for a bare quote, and ErrFieldCount for a line that has not as
\* many fields as the first (FieldsPerRecord is 0).
ReaderRead(rows, n) ==
  IF n > Len(rows) THEN [err |-> "EOF", row |-> << >>]
  ELSE IF rows[n].bareQuote THEN [err |-> "bare quote", row |-> << >>]
  ELSE IF Len(rows[n].cells) # Len(rows[1].cells)
  THEN [err |-> "wrong number of fields", row |-> rows[n].cells]
  ELSE [err |-> "", row |-> rows[n].cells]

\* Where the loop goes when reader.Read() returns an error: it breaks.
AfterReadError(err) == "finish"

\* The lines a file may end with.
TailLines ==
  {Line(<< <<"t">>, v >>) : v \in {<<"1", "7">>, <<"-", "3">>, <<"x">>, << >>}}
  \cup {Line(<< <<"t">> >>), Line(<< <<"t">>, <<"4">>, <<"5">> >>), BareQuoteLine}

\* The numbers of leading lines, each with the cells t and 1.
LeadingLines == {0, 1, RowCeiling - 2, RowCeiling - 1, RowCeiling}

\* The files of the responses.
Files ==
  {[j \in 1..n |-> Line(<< <<"t">>, <<"1">> >>)] \o tail :
     n \in LeadingLines, tail \in UNION {[1..k -> TailLines] : k \in 0..MaxTailRows}}

\* What http.Get may give: an error, a status that is not 200, or the file.
HttpOutcomes == {"error", "not found", "ok"}

\* fetchCsv is called.
CsvInit ==
  /\ revision = "fiware.go"
  /\ store = EmptyMap
  /\ call = << >>
  /\ SchedOff
  /\ SensorsOff
  /\ TickersOff
  /\ DecoderOff
  /\ UploadOff
  /\ HookOff
  /\ PoiOff
  /\ SubsOff
  /\ \E rows \in Files, http \in HttpOutcomes :
       csv = [pc |-> "get", http |-> http, rows |-> rows, read |-> 0, numRows |-> 0,
              lastRow |-> << >>, lastRowNil |-> TRUE, num |-> 0, err |-> ""]

\* return 0, err.
CsvError(c, msg) == [c EXCEPT !.pc = "returned", !.num = 0, !.err = msg]

\* http.Get and the check of the status.
CsvGet ==
  /\ csv.pc = "get"
  /\ csv' = IF csv.http = "error" THEN CsvError(csv, "http")
            ELSE IF csv.http # "ok" THEN CsvError(csv, "bad status")
            ELSE [csv EXCEPT !.pc = "read"]
  /\ UNCHANGED <<syncVars, schedVars, sensVars, tickVars, decVars, upVars, hook, poi, subs>>

\* One iteration of the loop around reader.Read().
CsvRead ==
  /\ csv.pc = "read"
  /\ LET r == ReaderRead(csv.rows, csv.read + 1)
     IN csv' = IF r.err # ""
               THEN IF AfterReadError(r.err) = "finish"
                    THEN [csv EXCEPT !.pc = "finish"]
                    ELSE CsvError(csv, r.err)
               ELSE IF csv.numRows + 1 > RowCeiling
               THEN CsvError(csv, "csv seems to be too large")
               ELSE [csv EXCEPT !.read = @ + 1, !.numRows = @ + 1, !.lastRow = r.row,
                                !.lastRowNil = FALSE]
  /\ UNCHANGED <<syncVars, schedVars, sensVars, tickVars, decVars, upVars, hook, poi, subs>>

\* After the loop: the checks of the last row and strconv.Atoi.
CsvFinish ==
  /\ csv.pc = "finish"
  /\ csv' = IF csv.lastRowNil THEN CsvError(csv, "csv is empty")
            ELSE IF Len(csv.lastRow) # 2 THEN CsvError(csv, "last row must have 2 cells")
            ELSE IF Atoi(csv.lastRow[2]).err THEN CsvError(csv, "invalid syntax")
            ELSE [csv EXCEPT !.pc = "returned", !.num = Atoi(csv.lastRow[2]).num]
  /\ UNCHANGED <<syncVars, schedVars, sensVars, tickVars, decVars, upVars, hook, poi, subs>>

CsvNext ==
  \/ CsvGet
  \/ CsvRead
  \/ CsvFinish

\* fetchCsv on one response.
SpecCsv == CsvInit /\ [][CsvNext]_vars

\* ------------------------------------------------ the restaurant collector
\* sanitize, formatType and RestaurantCollector.Fetch, in the revision of
\* restaurants.go and in the one of unnamed/part_006. A text is a sequence of
\* characters; a character is the string of it, or its name: "quote" for the
\* double quote, "acute" for the acute accent, "newline", "tab", "return".
MaxTextLen == 3

\* The pairs of strings.NewReplacer in sanitize.
Replacer ==
  << <<";", ",">>, <<"(", "[">>, <<")", "]">>, <<"<", " ">>, <<">", " ">>,
     <<"=", ":">>, <<"quote", " ">>, <<"'", " ">>, <<"acute", " ">>,
     <<"newline", " ">>, <<"tab", " ">> >>

\* r.Replace on one character.
ReplaceChar(c) ==
  IF \E n \in DOMAIN Replacer : Replacer[n][1] = c
  THEN Replacer[CHOOSE n \in DOMAIN Replacer : Replacer[n][1] = c][2]
  ELSE c

\* unicode.IsSpace, for the characters of the texts.
IsSpace(c) == c \in {" ", "newline", "tab", "return"}

\* strings.TrimSpace.
TrimSpace(s) ==
  LET kept == {j \in DOMAIN s : ~IsSpace(s[j])}
  IN IF kept = {} THEN << >>
     ELSE SubSeq(s, CHOOSE j \in kept : \A k \in kept : j <= k,
                    CHOOSE j \in kept : \A k \in kept : j >= k)

\* A sanitize that does not trim.
sanitizeUntrimmed(s) == [j \in DOMAIN s |-> ReplaceChar(s[j])]

\* sanitize(s).
sanitize(s) == TrimSpace([j \in DOMAIN s |-> ReplaceChar(s[j])])

UpperCase ==
  <<"A", "B", "C", "D", "E", "F", "G", "H", "I", "J", "K", "L", "M", "N", "O", "P",
    "Q", "R", "S", "T", "U", "V", "W", "X", "Y", "Z">>

LowerCase ==
  <<"a", "b", "c", "d", "e", "f", "g", "h", "i", "j", "k", "l", "m", "n", "o", "p",
    "q", "r", "s", "t", "u", "v", "w", "x", "y", "z">>

\* unicode.ToUpper and unicode.ToLower on one character.
ToUpperChar(c) ==
  IF \E n \in DOMAIN LowerCase : LowerCase[n] = c
  THEN UpperCase[CHOOSE n \in DOMAIN LowerCase : LowerCase[n] = c] ELSE c

ToLowerChar(c) ==
  IF \E n \in DOMAIN UpperCase : UpperCase[n] = c
  THEN LowerCase[CHOOSE n \in DOMAIN UpperCase : UpperCase[n] = c] ELSE c

\* strings.ToLower and strings.Contains.
ToLower(s) == [j \in DOMAIN s |-> ToLowerChar(s[j])]

Contains(s, substr) ==
  \E n \in 0..(Len(s) - Len(substr)) : SubSeq(s, n + 1, n + Len(substr)) = substr

\* formatType(s): the first character in upper case.
formatType(s) ==
  IF s = << >> THEN << >> ELSE [j \in DOMAIN s |-> IF j = 1 THEN ToUpperChar(s[j]) ELSE s[j]]

\* The texts the collector compares with.
TextMensa == <<"M", "e", "n", "s", "a">>
TextUnicampus == <<"u", "n", "i", "c", "a", "m", "p", "u", "s">>
TextPlace == <<"P", "l", "a", "c", "e">>

mensaOsmID == 1578665845

\* fmt.Sprintf("%f", x) for a whole number of degrees.
RECURSIVE DecimalText(_)
DecimalText(n) ==
  IF n < 10 THEN <<DecimalDigits[n + 1]>>
  ELSE DecimalText(n \div 10) \o <<DecimalDigits[(n % 10) + 1]>>

SprintfF(x) ==
  (IF x < 0 THEN <<"-">> \o DecimalText(0 - x) ELSE DecimalText(x))
    \o <<".", "0", "0", "0", "0", "0", "0">>

\* A value of the metadata: a string, an integer, or none for an absent key.
StringValue(text) == [kind |-> "string", text |-> text, num |-> 0]
IntValue(num) == [kind |-> "int", text |-> << >>, num |-> num]

\* The revisions of Fetch.
PoiRevisions == {"restaurants.go", "part_006"}

\* placeType.
PlaceType(loc) ==
  IF "category" \in DOMAIN loc.metadata /\ loc.metadata["category"].kind = "string"
     /\ loc.metadata["category"].text # << >>
  THEN formatType(loc.metadata["category"].text)
  ELSE TextPlace

\* The response before the menu: type, name, location and every key of the
\* metadata, the strings among its values sanitized.
Response(loc) ==
  [key \in {"type", "name", "location"} \cup DOMAIN loc.metadata |->
     IF key \in DOMAIN loc.metadata
     THEN [value |-> IF loc.metadata[key].kind = "string"
                     THEN StringValue(sanitize(loc.metadata[key].text))
                     ELSE loc.metadata[key],
           type |-> "String"]
     ELSE IF key = "type" THEN PlaceType(loc)
     ELSE IF key = "name" THEN [value |-> sanitize(loc.name), type |-> "String"]
     ELSE [type |-> "geo:point",
           value |-> SprintfF(loc.lat) \o <<",", " ">> \o SprintfF(loc.lon)]]

\* The condition under which Fetch calls scrapeMensaColly.
ScrapesMenu(rev, loc) ==
  IF rev = "part_006"
  THEN /\ "osm_id" \in DOMAIN loc.metadata
       /\ loc.metadata["osm_id"].kind = "int"
       /\ loc.metadata["osm_id"].num = mensaOsmID
  ELSE /\ PlaceType(loc) = TextMensa \/ Contains(ToLower(loc.name), ToLower(TextMensa))
       /\ Contains(ToLower(loc.name), TextUnicampus)

\* A scrape that gives a menu whenever it does not fail.
MenuKeptEvenEmpty(scrape) == scrape.err = ""

\* err == nil && len(menu) > 0.
MenuKept(scrape) == scrape.err = "" /\ Len(scrape.menu) > 0

\* A meal as scrapeMensaColly appends it.
Meal(nameGer, nameEng, price, category) ==
  [NameGerman |-> sanitize(nameGer), NameEnglish |-> sanitize(nameEng),
   Price |-> sanitize(price), Category |-> sanitize(category)]

\* What scrapeMensaColly may return: an error, no meal for today, a meal.
Scrapes ==
  {[err |-> "visit failed", menu |-> << >>], [err |-> "", menu |-> << >>],
   [err |-> "",
    menu |-> <<Meal(<<"S", "u", "p", "p", "e">>, <<"S", "o", "u", "p">>,
                    <<"(", "2", "|", "4", ")">>, <<"V", "e", "g", "a", "n">>)>>]}

\* The names of the locations.
PoiNames ==
  {TextMensa \o <<" ">> \o <<"U", "n", "i", "C", "a", "m", "p", "u", "s">>,
   <<"U", "n", "i", "c", "a", "m", "p", "u", "s">>, TextMensa,
   <<"P", "i", "z", "z", "a">>, <<" ", "M", "i", "'", "s", "(", "1", ")", ";">>}

\* The values of the metadata, per key; an absent key has none.
PoiMetadataValues ==
  [category |-> {StringValue(<<"m", "e", "n", "s", "a">>),
                 StringValue(<<"c", "a", "f", "e">>),
                 StringValue(<<"b", "a", "r", ";", "c", "a", "f", "e">>),
                 StringValue(<< >>), IntValue(7)},
   osm_id |-> {IntValue(mensaOsmID), IntValue(12345)},
   cuisine |-> {StringValue(<<" ", "a", "=", "b", "<", "c", ">", "tab">>)},
   todays_menu |-> {StringValue(<<"s", "o", "u", "p">>)}]

PoiMetadata ==
  {m \in UNION {[K -> UNION {PoiMetadataValues[k] : k \in DOMAIN PoiMetadataValues}] :
                  K \in SUBSET DOMAIN PoiMetadataValues} :
     \A k \in DOMAIN m : m[k] \in PoiMetadataValues[k]}

\* The locations of the restaurant collector's binding.
PoiLocations ==
  {[name |-> name, lat |-> 52, lon |-> 0 - 11, metadata |-> md] :
     name \in PoiNames, md \in PoiMetadata}

\* Fetch(loc) is called.
PoiInit ==
  /\ revision = "fiware.go"
  /\ store = EmptyMap
  /\ call = << >>
  /\ SchedOff
  /\ SensorsOff
  /\ TickersOff
  /\ DecoderOff
  /\ UploadOff
  /\ HookOff
  /\ CsvOff
  /\ SubsOff
  /\ \E rev \in PoiRevisions, loc \in PoiLocations :
       poi = [pc |-> "called", rev |-> rev, loc |-> loc, response |-> EmptyMap,
              scraped |-> FALSE, scrape |-> [err |-> "", menu |-> << >>],
              isNil |-> TRUE, err |-> ""]

\* Fetch builds the response up to the menu.
PoiBuild ==
  /\ poi.pc = "called"
  /\ poi' = [poi EXCEPT
               !.pc = IF ScrapesMenu(poi.rev, poi.loc) THEN "scrape" ELSE "return",
               !.response = Response(poi.loc), !.isNil = FALSE]
  /\ UNCHANGED <<syncVars, schedVars, sensVars, tickVars, decVars, upVars, hook, csv, subs>>

\* Fetch calls scrapeMensaColly and adds the menu, or logs the error.
PoiScrape ==
  /\ poi.pc = "scrape"
  /\ \E scrape \in Scrapes :
       poi' = [poi EXCEPT
                 !.pc = "return", !.scraped = TRUE, !.scrape = scrape,
                 !.response =
                   IF MenuKept(scrape)
                   THEN Put(@, "todays_menu",
                            [value |-> scrape.menu, type |-> "StructuredValue"])
                   ELSE @]
  /\ UNCHANGED <<syncVars, schedVars, sensVars, tickVars, decVars, upVars, hook, csv, subs>>

\* return response, nil.
PoiReturn ==
  /\ poi.pc = "return"
  /\ poi' = [poi EXCEPT !.pc = "returned", !.err = ""]
  /\ UNCHANGED <<syncVars, schedVars, sensVars, tickVars, decVars, upVars, hook, csv, subs>>

PoiNext ==
  \/ PoiBuild
  \/ PoiScrape
  \/ PoiReturn

\* Fetch on one location.
SpecPoi == PoiInit /\ [][PoiNext]_vars

\* The characters of the texts sanitize is called with.
TextChars ==
  {"a", "Z", " ", ";", "(", ")", "<", ">", "=", "quote", "'", "acute", "newline",
   "tab", "return"}

Texts == UNION {[1..n -> TextChars] : n \in 0..MaxTextLen}

\* sanitize is called with a text.
SanitizeInit ==
  /\ revision = "fiware.go"
  /\ store = EmptyMap
  /\ call = << >>
  /\ SchedOff
  /\ SensorsOff
  /\ TickersOff
  /\ DecoderOff
  /\ UploadOff
  /\ HookOff
  /\ CsvOff
  /\ SubsOff
  /\ \E s \in Texts : poi = [pc |-> "sanitize", s |-> s, out |-> << >>]

\* sanitize returns.
SanitizeReturn ==
  /\ poi.pc = "sanitize"
  /\ poi' = [poi EXCEPT !.pc = "sanitized", !.out = sanitize(poi.s)]
  /\ UNCHANGED <<syncVars, schedVars, sensVars, tickVars, decVars, upVars, hook, csv, subs>>

\* sanitize on one text.
SpecSanitize == SanitizeInit /\ [][SanitizeReturn]_vars

\* ------------------------------------------- the client's EnsureSubscription
\* EnsureSubscription(fiwareUrl, qlNotifyURL, sub), called again and again,
\* one call after the other: the GET of the store's subscriptions is one
\* step, the POST of the new subscription another.
\* The calls made.
MaxEnsureCalls == 3

\* The urls the function is called with.
QlNotifyUrl == "http://quantumleap:8668/v2/notify"
OtherNotifyUrl == "http://dashboard:3000/notify"
NotifyUrls == {QlNotifyUrl, OtherNotifyUrl}

\* A subscription of the store: the member of its notification the url is
\* under, the url, and who created it.
Subscription(member, url, by) == [member |-> member, url |-> url, by |-> by]

\* The subscription the payload of the POST describes: notification.http.url
\* is qlNotifyURL.
Payload(url) == Subscription("http", url, "EnsureSubscription")

\* The subscriptions the store may hold before the first call, created by
\* others: none, one for either url, one that notifies the url by httpCustom,
\* two for the same url.
ForeignSubscriptions ==
  {<< >>,
   <<Subscription("http", QlNotifyUrl, "other")>>,
   <<Subscription("http", OtherNotifyUrl, "other")>>,
   <<Subscription("httpCustom", QlNotifyUrl, "other")>>,
   <<Subscription("http", QlNotifyUrl, "other"),
     Subscription("http", QlNotifyUrl, "other")>>}

\* json.NewDecoder(resp.Body).Decode(&subs): of every subscription listed,
\* notification.http.url, which is "" for one that has no member http.
DecodeSubs(stored) ==
  [n \in DOMAIN stored |->
     IF stored[n].member = "http" THEN stored[n].url ELSE ""]

\* A loop that finds no subscription, as one that compared the wrong field
\* would.
ExistsNever(listing, url) == FALSE

\* The loop over subs: some existingSub.Notifications.HTTP.URL is qlNotifyURL.
Exists(listing, url) == \E n \in DOMAIN listing : listing[n] = url

\* What the GET may come to: no response, a status other than 200, a body
\* that is no list of subscriptions, the list.
ListOutcomes == {"transport", "status", "undecodable", "listed"}

\* What the POST may come to: the request does not arrive, the response is
\* lost after the store has created the subscription, a status other than
\* 201, 201.
PostOutcomes == {"transport", "lost", "status", "created"}

\* The function returns err ("" for nil).
EnsureReturned(s, err) ==
  [s EXCEPT !.pc = "idle", !.err = err,
            !.ensured = IF err = "" THEN s.ensured \cup {s.url} ELSE s.ensured]

\* The function up to its loop over the listing.
EnsureListed(s, url, outcome) ==
  LET t == [s EXCEPT !.url = url, !.n = s.n + 1, !.listing = << >>]
  IN CASE outcome = "transport" -> EnsureReturned(t, "list subscriptions failed")
       [] outcome = "status" -> EnsureReturned(t, "list subscriptions unexpected status")
       [] outcome = "undecodable" -> EnsureReturned(t, "list subscriptions decode failed")
       [] outcome = "listed" ->
            LET u == [t EXCEPT !.listing = DecodeSubs(s.stored)]
            IN IF Exists(u.listing, url) THEN EnsureReturned(u, "")
               ELSE [u EXCEPT !.pc = "post"]

\* The function from its POST on.
EnsurePosted(s, outcome) ==
  LET t == [s EXCEPT !.posts = s.posts + 1]
      made == [t EXCEPT !.stored = Append(s.stored, Payload(s.url))]
  IN CASE outcome = "transport" -> EnsureReturned(t, "create subscription failed")
       [] outcome = "lost" -> EnsureReturned(made, "create subscription failed")
       [] outcome = "status" ->
            EnsureReturned(t, "create subscription unexpected status")
       [] outcome = "created" -> EnsureReturned(made, "")

SubsInit ==
  /\ revision = "fiware.go"
  /\ store = EmptyMap
  /\ call = << >>
  /\ SchedOff
  /\ SensorsOff
  /\ TickersOff
  /\ DecoderOff
  /\ UploadOff
  /\ HookOff
  /\ CsvOff
  /\ PoiOff
  /\ \E stored \in ForeignSubscriptions :
       subs = [pc |-> "idle", url |-> "", n |-> 0, listing |-> << >>,
               stored |-> stored, posts |-> 0, err |-> "", ensured |-> {}]

\* EnsureSubscription is called: GET /v2/subscriptions and the loop.
EnsureGet ==
  /\ subs.pc = "idle"
  /\ subs.n < MaxEnsureCalls
  /\ \E url \in NotifyUrls : \E outcome \in ListOutcomes :
       subs' = EnsureListed(subs, url, outcome)
  /\ UNCHANGED <<syncVars, schedVars, sensVars, tickVars, decVars, upVars,
                 hook, csv, poi>>

\* POST /v2/subscriptions and the return.
EnsurePost ==
  /\ subs.pc = "post"
  /\ \E outcome \in PostOutcomes : subs' = EnsurePosted(subs, outcome)
  /\ UNCHANGED <<syncVars, schedVars, sensVars, tickVars, decVars, upVars,
                 hook, csv, poi>>

SubsNext ==
  \/ EnsureGet
  \/ EnsurePost

\* Calls of EnsureSubscription, one after the other.
SpecSubs == SubsInit /\ [][SubsNext]_vars

\* ------------------------------------------------- claims on the sync client
\* The attributes of m are in the store's entity id, with m's values.
Holds(st, id, m) ==
  /\ id \in DOMAIN st
  /\ \A k \in DOMAIN m : k \in DOMAIN st[id] /\ st[id][k] = m[k]

\* C1: an upsert whose update call is answered 404 (the entity does not exist)
\* has made exactly one update call and goes on to exactly one create call; it
\* returns success when that create is answered 201, and the store then holds
\* the entity with every attribute the caller passed.
C1_UpsertCreatesMissingEntity ==
  /\ [](\A c \in DOMAIN call :
         call[c].op = "upsert" /\ call[c].updStatus = StatusNotFound =>
           /\ call[c].nUpd = 1
           /\ call[c].pc = "fallback" => call[c].nCrt = 0
           /\ call[c].pc = "returned" =>
                /\ call[c].nCrt = 1
                /\ call[c].res = "ok" <=> call[c].crtStatus = StatusCreated)
  /\ [][\A c \in DOMAIN call :
          call[c].pc = "fallback" /\ call'[c].pc = "returned"
            /\ call'[c].crtStatus = StatusCreated =>
              /\ call'[c].res = "ok"
              /\ Holds(store', call'[c].id, call'[c].arg)]_vars

\* C1's case: an upsert carrying "type" and an attribute found no entity,
\* created it and returned success.
C1_Witness ==
  \E c \in DOMAIN call :
    /\ call[c].op = "upsert" /\ call[c].pc = "returned"
    /\ call[c].updStatus = StatusNotFound /\ call[c].crtStatus = StatusCreated
    /\ call[c].res = "ok"
    /\ DOMAIN call[c].arg = AttrKeys
    /\ Holds(store, call[c].id, call[c].arg)

\* C2: the body of an upsert's update call never contains "type"; the fallback
\* create carries the caller's "type" exactly when the caller passed one.
C2_UpdateBodyWithoutType ==
  \A c \in DOMAIN call :
    call[c].op = "upsert" =>
      /\ "type" \notin DOMAIN call[c].updBody
      /\ call[c].nCrt = 1 =>
           ("type" \in DOMAIN call[c].crtBody <=> "type" \in DOMAIN call[c].arg)

\* C2 as far as the revision of fiware.go goes.
C2_InFiwareGo == revision = "fiware.go" => C2_UpdateBodyWithoutType

\* C3: an upsert returns success only after an update answered 204, or answered
\* 404 with the create answered 201; after any other status of the update call
\* it returns an error and has made no create call.
C3_UpsertSuccessOnly204Or404Then201 ==
  \A c \in DOMAIN call :
    call[c].op = "upsert" /\ call[c].pc = "returned" =>
      /\ call[c].res = "ok" =>
           \/ call[c].updStatus = StatusNoContent
           \/ call[c].updStatus = StatusNotFound /\ call[c].crtStatus = StatusCreated
      /\ call[c].updStatus \notin {StatusNoContent, StatusNotFound} =>
           call[c].res = "error" /\ call[c].nCrt = 0

\* C3 as far as the revision of fiware.go goes.
C3_InFiwareGo == revision = "fiware.go" => C3_UpsertSuccessOnly204Or404Then201

\* C4 as stated: a create answered with the "already exists" conflict returns
\* success.
C4_ConflictReturnsSuccess ==
  \A c \in DOMAIN call :
    call[c].op = "create" /\ call[c].pc = "returned" /\ call[c].crtStatus = 422 =>
      call[c].res = "ok"

\* C4, amended: CreateEntity returns success exactly when its create call is
\* answered 201; the "already exists" conflict is returned as an error like
\* every other failure.
C4_CreateSuccessOnly201 ==
  \A c \in DOMAIN call :
    call[c].op = "create" /\ call[c].pc = "returned" =>
      /\ call[c].nCrt = 1 /\ call[c].nUpd = 0
      /\ call[c].res = "ok" <=> call[c].crtStatus = StatusCreated
      /\ call[c].crtStatus = 422 => call[c].res = "error"

\* C4's case: CreateEntity for an entity that exists was answered with the
\* conflict and returned the error.
C4_Witness ==
  \E c \in DOMAIN call :
    /\ call[c].op = "create" /\ call[c].pc = "returned"
    /\ call[c].crtStatus = 422 /\ call[c].res = "error"
    /\ call[c].id \in DOMAIN store

\* The collector service; every step that can be taken is taken in the end
\* (goroutines are scheduled, every fetch and every HTTP call returns), and a
\* select that is ready to take <-ctx.Done() again and again takes it in the
\* end: Go chooses among the ready cases of a select uniformly at random.
\* Signals and ticks are the environment's: no fairness.
SpecSchedFair ==
  /\ SchedInit
  /\ [][SchedNext]_vars
  /\ WF_vars(CreateCollectors)
  /\ WF_vars(ReadConfig)
  /\ WF_vars(StartWorker)
  /\ WF_vars(AllStarted)
  /\ WF_vars(Cancel)
  /\ WF_vars(Goodbye)
  /\ \A g \in Goroutines :
       /\ WF_vars(WorkerStart(g))
       /\ WF_vars(Fetch(g))
       /\ WF_vars(Upsert(g))
       /\ WF_vars(EndPass(g))
       /\ SF_vars(SelectDone(g))

\* --------------------------------------------------- claims on the scheduler
\* A pass of goroutine g begins with this step.
PassBegins(g) == workers[g].pc # "pass" /\ workers'[g].pc = "pass"

\* C6: once the shutdown context is cancelled no worker begins a pass, neither
\* its first one nor one for a tick.
C6_NoPassBeginsAfterCancel ==
  [][\A g \in Goroutines : ctxDone => ~PassBegins(g)]_vars

\* The tick-triggered half of C6 alone: after cancellation no worker leaves
\* its select for a pass.
C6_NoTickPassAfterCancel ==
  [][\A g \in Goroutines :
       ctxDone /\ workers[g].pc = "select" => workers'[g].pc # "pass"]_vars

\* C7: when main has returned from wg.Wait(), every worker has returned: no
\* worker is before its first pass, in a pass or at its select.
C7_WaitReturnsAfterAllWorkers ==
  mpc = "done" =>
    /\ wg = 0
    /\ \A g \in Goroutines : workers[g].pc \in {"unborn", "stopped"}
    /\ \A g \in 1..Len(cfg) : workers[g].pc = "stopped"

\* C7's case: main returned after the workers of a full configuration.
C7_Witness ==
  /\ mpc = "done"
  /\ Len(cfg) = NumBindings
  /\ \A g \in Goroutines :
       workers[g].pc = "stopped" /\ Len(workers[g].binding.locations) > 0

AllIntervalsPositive == \A k \in 1..Len(cfg) : cfg[k].interval > 0

\* C8: when every interval is positive, cancellation leads to main returning
\* with every worker stopped, however the ticks fall.
C8_ShutdownTerminates ==
  (ctxDone /\ AllIntervalsPositive) ~>
    (mpc = "done" /\ \A g \in 1..Len(cfg) : workers[g].pc = "stopped")

\* C8's case: the context is cancelled while a worker is in a pass with a tick
\* pending.
C8_Witness ==
  /\ ctxDone /\ AllIntervalsPositive
  /\ \E g \in Goroutines :
       workers[g].pc = "pass" /\ workers[g].tick /\ ~workers[g].first

\* C9: the loop starts one goroutine per binding, in order; the worker of the
\* k-th goroutine holds the k-th binding and fetches and upserts locations of
\* that binding only.
C9_OneWorkerPerBinding ==
  /\ spawned <= Len(cfg)
  /\ mpc \in {"waitSignal", "wait", "done"} => spawned = Len(cfg)
  /\ \A g \in Goroutines : workers[g].pc # "unborn" <=> g <= spawned
  /\ wg = Cardinality({g \in Goroutines : workers[g].pc \in {"started", "pass", "select"}})
  /\ \A g \in Goroutines : workers[g].pc # "unborn" =>
       /\ workers[g].binding = cfg[g]
       /\ workers[g].phase = "upsert" =>
            workers[g].loc = cfg[g].locations[workers[g].i]

\* C9's case: two workers are in upserts of their own bindings' locations.
C9_Witness ==
  /\ Len(cfg) = NumBindings
  /\ \A g \in Goroutines :
       workers[g].phase = "upsert" /\ workers[g].loc = LocationId(g, workers[g].i)

\* C10: a worker is at its select (waits for a tick) only after its first
\* pass, and the pass it runs before that is the one begun at its start, not
\* one begun for a tick.
C10_FirstPassBeforeAnyTick ==
  \A g \in Goroutines :
    /\ workers[g].pc \in {"select", "stopped"} => workers[g].initialDone
    /\ workers[g].pc = "pass" /\ ~workers[g].initialDone => workers[g].first
    /\ workers[g].pc = "started" => ~workers[g].tick

\* C10's case: a worker is at the last location of its first pass.
C10_Witness ==
  \E g \in Goroutines :
    /\ workers[g].pc = "pass" /\ workers[g].first /\ ~workers[g].initialDone
    /\ workers[g].i = MaxLocations /\ workers[g].phase = "upsert"

\* ------------------------------------------------------- claims on the passes
\* The first n elements of s.
Prefix(s, n) == SubSeq(s, 1, n)

\* No element is twice in s.
NoRepeat(s) == \A a, b \in 1..Len(s) : a # b => s[a] # s[b]

\* C13: in a pass, FetchAll fetches the locations of the binding one by one
\* in list order, each once, whatever failed before; it has called
\* UpdateEntity for exactly the locations whose fetch succeeded, once each,
\* and it returns only when every location has been fetched.
C13_EveryLocationFetchedOnce ==
  /\ [](\A g \in DOMAIN workers :
         LET w == workers[g]
             n == IF w.phase = "upsert" THEN w.i ELSE w.i - 1
         IN w.watch /\ w.pc = "pass" =>
              /\ n <= Len(w.binding.locations)
              /\ w.fetched = Prefix(w.binding.locations, n)
              /\ NoRepeat(w.fetched) /\ NoRepeat(w.upserted)
              /\ w.phase = "fetch" => w.upserted = w.fetchedOk
              /\ w.phase = "upsert" => w.fetchedOk = Append(w.upserted, w.loc)
              /\ \A a \in 1..Len(w.fetchedOk) :
                   \E b \in 1..Len(w.fetched) : w.fetched[b] = w.fetchedOk[a])
  /\ [][\A g \in DOMAIN workers :
          workers[g].watch /\ workers[g].pc = "pass" /\ workers'[g].pc # "pass" =>
            /\ workers[g].fetched = workers[g].binding.locations
            /\ workers[g].upserted = workers[g].fetchedOk]_vars

\* C13's case: a pass over two locations is at its end; the fetch of the first
\* location failed, the second location was fetched and upserted.
C13_Witness ==
  \E g \in DOMAIN workers :
    LET w == workers[g]
    IN /\ w.watch /\ w.pc = "pass" /\ w.phase = "fetch"
       /\ Len(w.binding.locations) = 2 /\ w.i = 3
       /\ w.failed
       /\ w.fetched = w.binding.locations
       /\ w.upserted = <<w.binding.locations[2]>>

\* The last pass of the worker had errors.
LastPassFailed(w) == w.lastPass \in {"someFailed", "allFailed"}

C11_PassesFollowOwnTicks ==
  /\ [](\A g \in TimedWorkers :
         LET w == timed[g]
         IN /\ w.lastTick = (IF w.elapsed = 0 THEN 0 ELSE w.start + w.elapsed * w.T)
            /\ w.passes > 0 /\ ~w.slow =>
                 /\ w.passes = 1 + w.elapsed - (IF w.tick THEN 1 ELSE 0)
                 /\ w.lastStart = w.start + (w.passes - 1) * w.T)
  /\ [][\A g \in TimedWorkers :
          timed[g].passes > 0 /\ timed'[g].passes # timed[g].passes =>
            /\ timed[g].tick /\ ~timed'[g].tick
            /\ timed'[g].passes = timed[g].passes + 1
            /\ now' = now
            /\ \A h \in TimedWorkers \ {g} : timed'[h] = timed[h]]_vars

\* C11's case: a worker whose passes took time, all less than its interval,
\* is in its third pass, while the other worker was slower than its interval
\* and had a tick come during a pass.
C11_Witness ==
  \E g, h \in TimedWorkers :
    /\ g # h
    /\ timed[g].passes = 3 /\ ~timed[g].slow /\ timed[g].pc = "pass"
    /\ timed[g].rem > 0 /\ timed[g].lastEnd > timed[g].start
    /\ timed[g].lastEnd < timed[g].start + 2 * timed[g].T
    /\ timed[h].slow /\ timed[h].elapsed > timed[h].passes

\* C12: no binding has two passes in progress: a worker begins a pass only
\* when none of its passes is in progress, also when a pass outlasts the
\* interval.
C12_NoOverlappingPasses ==
  /\ [](\A g \in TimedWorkers : timed[g].active <= 1)
  /\ [][\A g \in TimedWorkers :
          timed'[g].passes # timed[g].passes => timed[g].active = 0]_vars

\* C12's case: a pass is in progress that has outlasted the interval, and the
\* tick that came during it is pending.
C12_Witness ==
  \E g \in TimedWorkers :
    /\ timed[g].pc = "pass" /\ timed[g].rem > 0 /\ timed[g].tick
    /\ timed[g].elapsed >= timed[g].passes
    /\ now - timed[g].lastStart >= timed[g].T

\* ------------------------------------------------------ claims on the decoder
\* The layouts as they are documented: per frame id the fields, each with its
\* attribute, its offset from the frame's start, its width in bytes and its
\* scale.
Field(attr, off, width, scale) ==
  [attr |-> attr, off |-> off, width |-> width, scale |-> scale]

DocumentedFields(frameId) ==
  CASE frameId \in {1, 74} ->
         {Field("temperature", 1, 2, "/10"), Field("humidity", 3, 1, "1"),
          Field("lightIntensity", 4, 4, "1"), Field("lightUV", 8, 1, "/10"),
          Field("windSpeed", 9, 2, "/10")}
    [] frameId \in {2, 75} ->
         {Field("windDirection", 1, 2, "1"), Field("rainIntensity", 3, 4, "/1000"),
          Field("barometricPressure", 7, 2, "x10")}
    [] frameId = 76 ->
         {Field("peakWindGust", 1, 2, "/10"),
          Field("cumulativeRainfall", 3, 4, "/1000")}
    [] frameId = 3 -> {Field("batteryLevel", 1, 1, "1")}
    [] frameId = 4 ->
         {Field("batteryLevel", 1, 1, "1"), Field("hardwareVersion", 2, 2, "major.minor"),
          Field("softwareVersion", 4, 2, "major.minor"),
          Field("uplinkInterval", 6, 2, "1")}
    [] frameId = 5 -> {Field("uplinkInterval", 1, 2, "1")}
    [] frameId = 6 -> {}

\* The documented width of a frame: its id, its fields and its reserved bytes.
DocumentedWidth(frameId) ==
  CASE frameId \in {1, 74} -> 11
    [] frameId \in {2, 75} -> 9
    [] frameId = 76 -> 7
    [] frameId \in {3, 6} -> 2
    [] frameId = 4 -> 10
    [] frameId = 5 -> 5

DocumentedIds == {1, 74, 2, 75, 76, 3, 4, 5, 6}

\* The kind of a frame: 0x4A is the kind of 0x01 and 0x4B the kind of 0x02.
Kind(frameId) == CASE frameId = 74 -> 1 [] frameId = 75 -> 2 [] OTHER -> frameId

\* The other id of a kind that has two.
Alias(frameId) ==
  CASE frameId = 1 -> 74 [] frameId = 74 -> 1
    [] frameId = 2 -> 75 [] frameId = 75 -> 2 [] OTHER -> frameId

\* The bytes off..off+width-1 of a frame as a big-endian unsigned integer; one
\* of four bytes as its two halves.
RECURSIVE BigEndian(_, _, _)
BigEndian(frame, off, width) ==
  IF width = 4
  THEN [hi |-> BigEndian(frame, off, 2), lo |-> BigEndian(frame, off + 2, 2)]
  ELSE IF width = 1 THEN frame[off + 1]
  ELSE 256 * BigEndian(frame, off, width - 1) + frame[off + width]

\* The documented value of a field of a frame.
DocumentedValue(frame, f) ==
  CASE f.scale = "1" -> BigEndian(frame, f.off, f.width)
    [] f.scale = "/10" -> Float(BigEndian(frame, f.off, f.width), 10)
    [] f.scale = "/1000" -> Float(BigEndian(frame, f.off, f.width), 1000)
    [] f.scale = "x10" -> BigEndian(frame, f.off, f.width) * 10
    [] f.scale = "major.minor" ->
         Digits(frame[f.off + 1]) \o <<".">> \o Digits(frame[f.off + 2])

\* The documented attributes of a frame.
Documented(frame) ==
  LET fields == DocumentedFields(frame[1])
  IN [a \in {f.attr : f \in fields} |->
        DocumentedValue(frame, CHOOSE f \in fields : f.attr = a)]

\* The payload is a row of complete frames of known ids, uncut.
CompleteFrames ==
  /\ \A k \in 1..Len(pieces) :
       pieces[k][1] \in DocumentedIds /\ Len(pieces[k]) = DocumentedWidth(pieces[k][1])
  /\ payload = Concat(pieces)

\* What decoding the k-th frame alone returns.
Alone(k) == decodeSenseCapPayload(pieces[k])

\* The last frame of the payload that produces attribute a.
LastWith(a) ==
  CHOOSE k \in 1..Len(pieces) :
    /\ a \in DOMAIN Alone(k).result
    /\ \A j \in (k + 1)..Len(pieces) : a \notin DOMAIN Alone(j).result

\* C15: a payload that is one complete frame of a known id decodes without
\* error to exactly the attributes of the documented layout, each the
\* big-endian unsigned integer at the documented offset with the documented
\* scale, and the same frame under the other id of its kind decodes to the
\* same mapping.
C15_SingleFrameAsDocumented ==
  dec.pc = "returned" /\ CompleteFrames /\ Len(pieces) = 1 =>
    /\ ~dec.isNil /\ dec.err = ""
    /\ dec.result = Documented(payload)
    /\ decodeSenseCapPayload([payload EXCEPT ![1] = Alias(payload[1])])
         = [result |-> dec.result, isNil |-> FALSE, err |-> ""]

\* C15's case: the first frame of the test under its second id, decoded to
\* 27.7, 65, 94, 0.5 and 1.7.
C15_Witness ==
  /\ dec.pc = "returned" /\ payload = TestFrame(74)
  /\ dec.result = [temperature |-> Float(277, 10), humidity |-> 65,
                   lightIntensity |-> [hi |-> 0, lo |-> 94],
                   lightUV |-> Float(5, 10), windSpeed |-> Float(17, 10)]

\* The frames of the payload are of pairwise different kinds.
DifferentKinds ==
  \A j, k \in 1..Len(pieces) : j # k => Kind(pieces[j][1]) # Kind(pieces[k][1])

\* The attributes of all frames of the payload.
AllAttributes == UNION {DOMAIN Alone(k).result : k \in 1..Len(pieces)}

\* C16 as stated: complete frames of pairwise different kinds decode to the
\* union of their attributes, every attribute of every frame with the value
\* it has when the frame is decoded alone.
C16_NoFrameChangesAnother ==
  dec.pc = "returned" /\ CompleteFrames /\ DifferentKinds =>
    /\ ~dec.isNil /\ dec.err = ""
    /\ DOMAIN dec.result = AllAttributes
    /\ \A k \in 1..Len(pieces) : \A a \in DOMAIN Alone(k).result :
         dec.result[a] = Alone(k).result[a]

\* C16: complete frames of pairwise different kinds decode to the union of
\* their attributes; an attribute has the value it has when its frame is
\* decoded alone unless a later frame of the payload produces it too.
C16_UnionOfFrames ==
  dec.pc = "returned" /\ CompleteFrames /\ DifferentKinds =>
    /\ ~dec.isNil /\ dec.err = ""
    /\ DOMAIN dec.result = AllAttributes
    /\ \A k \in 1..Len(pieces) : \A a \in DOMAIN Alone(k).result :
         (\A j \in (k + 1)..Len(pieces) : a \notin DOMAIN Alone(j).result) =>
           dec.result[a] = Alone(k).result[a]

\* C16's case: the frames 0x03 and 0x04, which both carry the battery level,
\* with different levels, decoded to the four attributes of the two.
C16_Witness ==
  /\ dec.pc = "returned" /\ CompleteFrames
  /\ pieces = <<TestFrame(3), HighFrame(4)>>
  /\ DOMAIN dec.result =
       {"batteryLevel", "hardwareVersion", "softwareVersion", "uplinkInterval"}
  /\ dec.result.batteryLevel = 254

\* The lengths of the payload at which a frame of it ends.
RECURSIVE Boundaries(_)
Boundaries(k) ==
  IF k = 0 THEN {0}
  ELSE Boundaries(k - 1) \cup {Len(Concat(SubSeq(pieces, 1, k)))}

\* The payload is a row of complete frames of known ids cut inside a frame.
CutInsideFrame ==
  /\ \A k \in 1..Len(pieces) :
       pieces[k][1] \in DocumentedIds /\ Len(pieces[k]) = DocumentedWidth(pieces[k][1])
  /\ payload = SubSeq(Concat(pieces), 1, Len(payload))
  /\ Len(payload) \notin Boundaries(Len(pieces))

\* C17: a payload that ends inside a frame of a known id, as its first frame
\* or after complete frames, decodes to an error and to no mapping: nothing
\* of the frames before the cut is returned.
C17_TruncatedFrameFails ==
  dec.pc = "returned" /\ CutInsideFrame =>
    /\ dec.err = "frame too short"
    /\ dec.isNil /\ dec.result = EmptyMap

\* C17's case: the first frame of the test and four bytes of the second; the
\* first frame was decoded, and the call returned the error.
C17_Witness ==
  /\ dec.pc = "returned" /\ CutInsideFrame
  /\ pieces = <<TestFrame(1), TestFrame(2)>> /\ Len(payload) = 15
  /\ dec.iters = 1 /\ dec.isNil /\ dec.err = "frame too short"

\* C18: a payload of one byte decodes to an error, "invalid frame id" for a
\* byte that is no known id and "frame too short" for one that is; the empty
\* payload decodes without error to the empty mapping.
C18_OneByteFailsEmptySucceeds ==
  dec.pc = "returned" =>
    /\ Len(payload) = 1 =>
         /\ dec.isNil
         /\ dec.err = (IF payload[1] \in DocumentedIds
                       THEN "frame too short" ELSE "invalid frame id")
    /\ Len(payload) = 0 => ~dec.isNil /\ dec.err = "" /\ dec.result = EmptyMap

\* C18's case: the byte 0xFF alone was rejected.
C18_Witness ==
  /\ dec.pc = "returned" /\ payload = <<255>>
  /\ dec.isNil /\ dec.err = "invalid frame id"

\* C19: when several complete frames of a payload produce an attribute, of
\* the same kind or not, the attribute has the value of the last of them.
C19_LastFrameWins ==
  dec.pc = "returned" /\ CompleteFrames =>
    /\ ~dec.isNil
    /\ \A a \in AllAttributes :
         a \in DOMAIN dec.result /\ dec.result[a] = Alone(LastWith(a)).result[a]

\* C19's case: two frames 0x03 with different battery levels, decoded to the
\* level of the second.
C19_Witness ==
  /\ dec.pc = "returned" /\ CompleteFrames
  /\ pieces = <<TestFrame(3), HighFrame(3)>>
  /\ dec.result = [batteryLevel |-> 254]

\* ----------------------------------------------- claims on the upload handler
\* The query holds both control keys and the secret as the first password.
Authorized(query) ==
  /\ ID_KEY \in DOMAIN query
  /\ PASSWORD_KEY \in DOMAIN query
  /\ query[PASSWORD_KEY][1] = ExpectedPassword

\* What C20 says of a request.
UploadGuarded ==
  /\ (upload.calls # << >> \/ upload.todo # << >>) => Authorized(upload.query)
  /\ upload.pc = "returned" /\ ~Authorized(upload.query) =>
       /\ upload.status = StatusBadRequest
       /\ upload.calls = << >>
       /\ ID_KEY \notin DOMAIN upload.query => upload.message = "wsid is missing"
       /\ ID_KEY \in DOMAIN upload.query /\ PASSWORD_KEY \notin DOMAIN upload.query =>
            upload.message = "wspw is missing"

\* C20: the upload handler calls the context store only for a request whose
\* query holds wsid and wspw, the first value of wspw being the secret; a
\* request that lacks a key or has another password is answered 400, with the
\* missing key named, and no call of the context store is made for it.
C20_NoStoreCallWithoutSecret == upload.pc # "off" => UploadGuarded

\* The same for the handlers of main.go and part_002 alone.
C20_InLaterHandlers ==
  upload.pc # "off" /\ uploadRev # "part_001" => UploadGuarded

\* The handler of part_001 has answered a wrong password with 400 and has
\* called the context store all the same.
C20_WrongPasswordReachesStore ==
  /\ uploadRev = "part_001" /\ upload.pc = "returned"
  /\ upload.status = StatusBadRequest /\ upload.message = "invalid password"
  /\ Len(upload.calls) = 1

\* The values of a sequence.
Range(seq) == {seq[n] : n \in DOMAIN seq}

\* The value of additionalData in an entity the handler sends: the remaining
\* parameters, which the handler of part_001 sends without a type.
AdditionalData(entity) ==
  IF "additionalData" \notin DOMAIN entity THEN EmptyMap
  ELSE IF uploadRev = "part_001" THEN entity["additionalData"]
  ELSE entity["additionalData"].value

\* The keys an entity sends: its attributes' names and the keys under
\* additionalData.
SentKeys(entity) == DOMAIN entity \cup DOMAIN AdditionalData(entity)

\* The strings an entity sends as values.
SentStrings(entity) ==
  {IF uploadRev = "part_001" /\ a = "type" THEN entity[a] ELSE entity[a].value :
     a \in DOMAIN entity \ {"additionalData"}}
  \cup UNION {Range(AdditionalData(entity)[k]) : k \in DOMAIN AdditionalData(entity)}

\* The entities sent and still to send for the request.
UploadEntities ==
  {upload.calls[n].entity : n \in DOMAIN upload.calls}
  \cup {upload.todo[n].entity : n \in DOMAIN upload.todo}

\* C21: for an accepted upload, no entity sent to the context store holds the
\* key wsid or the key wspw, as an attribute or under additionalData, and no
\* value it sends is a value the request supplied under wspw.
C21_ControlKeysNeverSent ==
  upload.pc # "off" /\ Authorized(upload.query) =>
    \A entity \in UploadEntities :
      /\ SentKeys(entity) \cap {ID_KEY, PASSWORD_KEY} = {}
      /\ SentStrings(entity) \cap Range(upload.query[PASSWORD_KEY]) = {}

\* C21's case: an accepted upload with two values under wspw and a key the
\* handler does not know has been sent to the store.
C21_Witness ==
  /\ upload.pc = "returned" /\ Authorized(upload.query)
  /\ Len(upload.query[PASSWORD_KEY]) = 2
  /\ "softwaretype" \in DOMAIN upload.query
  /\ upload.calls # << >>
  /\ \A n \in DOMAIN upload.calls : upload.calls[n].res = "ok"
  /\ "softwaretype" \in DOMAIN AdditionalData(upload.calls[Len(upload.calls)].entity)

\* The keys the handler maps to an attribute of an entity.
MappedKeys(rev) ==
  IF rev = "part_002"
  THEN {BuildingMoves[n][1] : n \in DOMAIN BuildingMoves}
       \cup {StationMoves[n][1] : n \in DOMAIN StationMoves}
  ELSE {"t1hum", "t1tem"}

\* The query without the control keys and the keys mapped to an attribute.
Unrecognized(rev, query) ==
  [k \in DOMAIN query \ ({ID_KEY, PASSWORD_KEY} \cup MappedKeys(rev)) |-> query[k]]

\* C22: for an accepted upload, additionalData is the query's keys that are
\* neither control keys nor mapped to an attribute, with their values: no
\* such key is missing and no mapped key is under additionalData.
C22_AdditionalDataIsTheRest ==
  upload.pc # "off" /\ Authorized(upload.query) =>
    \A entity \in UploadEntities :
      "additionalData" \in DOMAIN entity =>
        AdditionalData(entity) = Unrecognized(uploadRev, upload.query)

\* The handler of main.go has sent t1tem under temperature and under
\* additionalData as well.
C22_MappedKeyAlsoUnderAdditionalData ==
  /\ uploadRev = "main.go" /\ upload.pc = "returned" /\ Authorized(upload.query)
  /\ Len(upload.calls) = 1
  /\ "t1tem" \in DOMAIN AdditionalData(upload.calls[1].entity)
  /\ upload.calls[1].entity["temperature"].value = upload.query["t1tem"][1]

\* The handler of part_002 has sent nothing of the query's apiver.
C22_ApiVersionDiscarded ==
  /\ uploadRev = "part_002" /\ upload.pc = "returned" /\ Authorized(upload.query)
  /\ "apiver" \in DOMAIN upload.query
  /\ \A n \in DOMAIN upload.calls : "apiver" \notin SentKeys(upload.calls[n].entity)

\* The sensor keys of the query and the attributes they are sent as, for the
\* entity of the given id.
KnownKeys(rev, id) ==
  IF rev = "part_002"
  THEN IF id = BRESSER_BUILDING_ID
       THEN {<<BuildingMoves[n][1], BuildingMoves[n][2]>> : n \in DOMAIN BuildingMoves}
       ELSE {<<StationMoves[n][1], StationMoves[n][2]>> : n \in DOMAIN StationMoves}
  ELSE {<<"t1hum", "humidity">>, <<"t1tem", "temperature">>}

\* The ids of the entities a request is sent to, in order.
UploadIds(rev) ==
  CASE rev = "main.go" -> <<BRESSER_ID>>
    [] rev = "part_001" -> <<OFFICE_ID>>
    [] rev = "part_002" -> <<BRESSER_BUILDING_ID, BRESSER_ID>>

\* C37: an accepted upload sends every attribute of the known keys with each
\* request: the first value of the key in the query, and the empty string
\* for a key the query does not hold.
C37_EveryKnownAttributeSent ==
  upload.pc = "returned" /\ Authorized(upload.query) =>
    /\ [n \in DOMAIN upload.calls |-> upload.calls[n].id] = UploadIds(uploadRev)
    /\ \A n \in DOMAIN upload.calls :
         \A pair \in KnownKeys(uploadRev, upload.calls[n].id) :
           /\ pair[2] \in DOMAIN upload.calls[n].entity
           /\ upload.calls[n].entity[pair[2]].value =
                (IF pair[1] \in DOMAIN upload.query
                 THEN upload.query[pair[1]][1] ELSE "")

\* C37's case: an accepted upload that holds the humidity and not the
\* temperature: the station's entity was sent with the humidity and with
\* the empty string as its temperature.
C37_Witness ==
  /\ uploadRev = "part_002" /\ upload.pc = "returned" /\ Authorized(upload.query)
  /\ "t1hum" \in DOMAIN upload.query /\ "t1tem" \notin DOMAIN upload.query
  /\ Len(upload.calls) = 2
  /\ upload.calls[2].id = BRESSER_ID /\ upload.calls[2].res = "ok"
  /\ upload.calls[2].entity["humidity"].value = "21.5"
  /\ upload.calls[2].entity["temperature"].value = ""

\* ------------------------------------------- claims on the collector's start
\* No worker was started: no goroutine, and so no pass and no upsert.
NoWorkerStarted ==
  /\ spawned = 0 /\ wg = 0
  /\ \A g \in Goroutines : workers[g] = NoWorker

\* C25: when the collector service's start fails, for a constructor or for
\* a binding that names an unknown collector, the process ends before any
\* worker is started: no pass runs and no call of the context store is made
\* for any binding, the bindings before the faulty one included.
C25_StartupErrorStartsNoWorker ==
  /\ mpc = "exited" => NoWorkerStarted
  /\ mpc # "off" /\ ~AllCollectorsKnown(cfg) =>
       /\ mpc \in {"constructors", "readConfig", "exited"}
       /\ NoWorkerStarted

\* C25's case: the process has ended for a file whose second binding names
\* an unknown collector, its first binding being without fault.
C25_Witness ==
  /\ mpc = "exited"
  /\ Len(cfg) = 2
  /\ cfg[1].name = CollectorNames[1] /\ cfg[1].interval > 0 /\ cfg[1].locations # << >>
  /\ cfg[2].name = UnknownName
  /\ NoWorkerStarted

\* Every worker that was started has a positive interval.
PositiveIntervals ==
  \A g \in Goroutines : workers[g].pc # "unborn" => workers[g].binding.interval > 0

\* C26: every binding the scheduler runs has a strictly positive interval:
\* ReadConfig yields no binding whose interval is zero or absent, and no
\* worker is started with a ticker period that is not positive.
C26_EveryIntervalPositive ==
  mpc \notin {"off", "constructors", "readConfig", "exited"} =>
    /\ \A k \in 1..Len(cfg) : cfg[k].interval > 0
    /\ PositiveIntervals

\* A worker was started with the interval 0 and time.NewTicker has panicked.
C26_WorkerWithIntervalZero ==
  /\ mpc = "crashed"
  /\ \E g \in Goroutines : workers[g].pc = "started" /\ workers[g].binding.interval = 0

\* ---------------------------------------------- claims on the webhook handler
\* The body is a JSON object whose two fields are strings or absent, and the
\* text of frm_payload is the base64 of some bytes.
BodyOk(body) ==
  /\ body.syntax = "object"
  /\ body.device_id.kind # "number"
  /\ body.frm_payload.kind # "number"
  /\ \E p \in HookPayloads : EncodeToString(p) = body.frm_payload.text

\* The bytes the sender encoded.
SentPayload(body) == CHOOSE p \in HookPayloads : EncodeToString(p) = body.frm_payload.text

\* The body names the expected device.
DeviceOk(body) == body.device_id.kind = "string" /\ body.device_id.text = "winfred"

\* The decoder succeeds on the bytes the sender encoded.
PayloadOk(body) == decodeSenseCapPayload(SentPayload(body)).err = ""

\* The request passes the three checks.
HookChecksPass(body) == BodyOk(body) /\ DeviceOk(body) /\ PayloadOk(body)

\* C23: the webhook handler calls the context store only after the three
\* checks passed in the order body (JSON and base64), device id, decoder; a
\* request that fails one of them is answered 400 and causes no call of the
\* context store.
C23_StoreCallOnlyAfterAllChecks ==
  hook.pc # "off" =>
    /\ Len(hook.passed) <= 3
    /\ hook.passed = Prefix(<<"body", "device", "payload">>, Len(hook.passed))
    /\ hook.passed # << >> => BodyOk(hook.body)
    /\ Len(hook.passed) >= 2 => DeviceOk(hook.body)
    /\ Len(hook.passed) = 3 => PayloadOk(hook.body)
    /\ hook.calls # << >> => Len(hook.passed) = 3
    /\ hook.pc = "returned" /\ ~HookChecksPass(hook.body) =>
         /\ hook.status = StatusBadRequest
         /\ hook.calls = << >>

\* C23's case: a request of the expected device with a valid body and a
\* payload the decoder refuses was answered 400 after two checks, without a
\* call of the context store.
C23_Witness ==
  /\ hook.pc = "returned"
  /\ hook.passed = <<"body", "device">>
  /\ hook.status = StatusBadRequest /\ hook.message = "invalid payload"
  /\ hook.calls = << >>

\* For a request that passed the checks and was answered: one upsert on the
\* endpoint's entity, its attributes being the decoder's keys, each with the
\* type tag and the decoded value.
UpsertedWithTag(tag) ==
  hook.pc = "returned" /\ HookChecksPass(hook.body) =>
    LET data == decodeSenseCapPayload(SentPayload(hook.body)).result
    IN /\ Len(hook.calls) = 1
       /\ hook.calls[1].id = SENSECAP_ID
       /\ DOMAIN hook.calls[1].entity = DOMAIN data
       /\ \A key \in DOMAIN data :
            hook.calls[1].entity[key] = [type |-> tag, value |-> data[key]]

Unparsable(rows, n) ==
  rows[n].bareQuote \/ Len(rows[n].cells) # Len(rows[1].cells)

\* The file is one the claim says fetchCsv refuses.
Refused(rows) ==
  \/ rows = << >>
  \/ \E n \in DOMAIN rows : Unparsable(rows, n)
  \/ Len(rows) > RowCeiling
  \/ Len(rows[Len(rows)].cells) # 2
  \/ Atoi(rows[Len(rows)].cells[2]).err

\* C27: fetchCsv returns the integer of the second cell of the file's last
\* row, and returns an error, never a value, when the file has no rows, has a
\* row that cannot be parsed at any position, has a last row without exactly
\* two cells or with a second cell that is no integer, or has more than 50
\* rows.
C27_LastRowOrError ==
  csv.pc = "returned" /\ csv.http = "ok" =>
    IF Refused(csv.rows) THEN csv.err # ""
    ELSE csv.err = "" /\ csv.num = Atoi(csv.rows[Len(csv.rows)].cells[2]).num

\* The same for the files whose rows can all be parsed.
C27_ForParsableFiles ==
  csv.pc = "returned" /\ csv.http = "ok"
    /\ (\A n \in DOMAIN csv.rows : ~Unparsable(csv.rows, n)) =>
      IF Refused(csv.rows) THEN csv.err # ""
      ELSE csv.err = "" /\ csv.num = Atoi(csv.rows[Len(csv.rows)].cells[2]).num

\* fetchCsv has returned the value of the row before a row with a bare quote,
\* the file's last row holding another value.
C27_ValueOfRowBeforeBadRow ==
  /\ csv.pc = "returned" /\ csv.err = ""
  /\ Len(csv.rows) = 3
  /\ csv.rows[2] = BareQuoteLine
  /\ csv.num = 1
  /\ Atoi(csv.rows[3].cells[2]).num = 17

\* ---------------------------------------- claims on the restaurant collector
\* The characters the context store forbids.
ForbiddenChars == {";", "(", ")", "<", ">", "=", "quote", "'"}

Whitespace == {" ", "newline", "tab", "return"}

\* The text holds no forbidden character.
CleanText(t) == \A j \in DOMAIN t : t[j] \notin ForbiddenChars

\* C28: for every text, what sanitize returns holds none of the characters
\* ; ( ) < > = " ', no newline and no tab, and neither begins nor ends with
\* whitespace.
C28_SanitizedTextIsClean ==
  poi.pc = "sanitized" =>
    /\ CleanText(poi.out)
    /\ \A j \in DOMAIN poi.out : poi.out[j] \notin {"newline", "tab"}
    /\ poi.out # << >> =>
         poi.out[1] \notin Whitespace /\ poi.out[Len(poi.out)] \notin Whitespace

\* C28's case: a text of a blank, a semicolon and a tab was sanitized to a
\* comma.
C28_Witness ==
  /\ poi.pc = "sanitized"
  /\ poi.s = <<" ", ";", "tab">>
  /\ poi.out = <<",">>

\* The texts of a meal.
MealTexts(meal) == {meal.NameGerman, meal.NameEnglish, meal.Price, meal.Category}

\* The strings among the values of the response, but for its type.
ValueTexts(response, loc) ==
  {response["name"].value, response["location"].value}
  \cup {response[k].value.text :
          k \in {key \in DOMAIN loc.metadata : response[key].type = "String"
                                                /\ response[key].value.kind = "string"}}
  \cup (IF "todays_menu" \in DOMAIN response
           /\ response["todays_menu"].type = "StructuredValue"
        THEN UNION {MealTexts(response["todays_menu"].value[n]) :
                      n \in DOMAIN response["todays_menu"].value}
        ELSE {})

\* C29: every string value of what the restaurant collector's Fetch returns
\* is free of the forbidden characters, for every name and every metadata:
\* the name, every string value of the metadata, and the type made from the
\* metadata's category.
C29_EveryStringClean ==
  poi.pc = "returned" =>
    /\ \A t \in ValueTexts(poi.response, poi.loc) : CleanText(t)
    /\ CleanText(poi.response["type"])

\* The same without the type.
C29_ValuesClean ==
  poi.pc = "returned" => \A t \in ValueTexts(poi.response, poi.loc) : CleanText(t)

\* Fetch has returned a type with a semicolon, the sanitized category beside
\* it.
C29_TypeWithSemicolon ==
  /\ poi.pc = "returned"
  /\ poi.response["type"] = <<"B", "a", "r", ";", "c", "a", "f", "e">>
  /\ poi.response["category"].value.text = <<"b", "a", "r", ",", "c", "a", "f", "e">>

\* The scrape was made for the location, succeeded and gave a meal.
MenuScraped ==
  /\ ScrapesMenu(poi.rev, poi.loc)
  /\ poi.scraped /\ poi.scrape.err = "" /\ Len(poi.scrape.menu) >= 1

\* C30: Fetch never returns an error; its result holds todays_menu only for
\* the location the menu is scraped for and only when the scrape succeeded
\* with at least one meal; for every other location no scrape is made and
\* todays_menu is absent.
C30_MenuOnlyWhenScraped ==
  poi.pc = "returned" =>
    /\ poi.err = "" /\ ~poi.isNil
    /\ poi.scraped <=> ScrapesMenu(poi.rev, poi.loc)
    /\ "todays_menu" \in DOMAIN poi.response <=> MenuScraped

\* C30 with the metadata's own key: Fetch never returns an error; a scrape
\* is made for the menu location and for no other; the result holds the
\* scraped menu exactly when the scrape was made and succeeded with at least
\* one meal, and apart from that it holds todays_menu exactly when the
\* location's metadata holds that key, as the String of the metadata.
C30_MenuScrapedOrOfMetadata ==
  poi.pc = "returned" =>
    /\ poi.err = "" /\ ~poi.isNil
    /\ poi.scraped <=> ScrapesMenu(poi.rev, poi.loc)
    /\ "todays_menu" \in DOMAIN poi.response <=>
         MenuScraped \/ "todays_menu" \in DOMAIN poi.loc.metadata
    /\ "todays_menu" \in DOMAIN poi.response =>
         IF MenuScraped
         THEN poi.response["todays_menu"] =
                [value |-> poi.scrape.menu, type |-> "StructuredValue"]
         ELSE poi.response["todays_menu"].type = "String"

\* C30's case: the scrape for the menu location failed, and Fetch returned
\* its result without a menu and without an error.
C30_Witness ==
  /\ poi.pc = "returned" /\ poi.err = ""
  /\ poi.scraped /\ poi.scrape.err # ""
  /\ "todays_menu" \notin DOMAIN poi.response
  /\ "name" \in DOMAIN poi.response

\* ------------------------------------------ claims on sequences of calls
\* C31: no update call carries the key id in its body, and no mapping handed
\* to an upsert holds it, in any sequence of calls, although CreateEntity
\* puts id into the mapping it is given and sends it in the create's body.
C31_NoIdInUpdateBody ==
  \A c \in DOMAIN call :
    /\ call[c].op = "upsert" =>
         "id" \notin DOMAIN call[c].arg /\ "id" \notin DOMAIN call[c].updBody
    /\ call[c].nCrt = 1 =>
         "id" \in DOMAIN call[c].crtBody /\ "id" \in DOMAIN call[c].data

\* C31's case: a caller's upsert was answered 204 for the entity that an
\* earlier call of the same caller had created.
C31_Witness ==
  \E c \in DOMAIN call :
    /\ call[c].op = "upsert" /\ call[c].pc = "returned"
    /\ call[c].updStatus = StatusNoContent /\ call[c].nCrt = 0
    /\ call[c].id \in DOMAIN store
    /\ "type" \in DOMAIN store[call[c].id] /\ store[call[c].id]["type"] = c
    /\ "temperature" \in DOMAIN call[c].updBody

\* C36: an upsert does not change the mapping its caller passed: when
\* UpdateEntity has returned, after the update alone or after the fallback,
\* the mapping has the keys and values it had at the call.
C36_UpsertLeavesMappingAlone ==
  \A c \in DOMAIN call :
    call[c].op = "upsert" /\ call[c].pc = "returned" => call[c].data = call[c].arg

\* The same for the upserts that made no create call.
C36_WithoutFallback ==
  \A c \in DOMAIN call :
    call[c].op = "upsert" /\ call[c].pc = "returned" /\ call[c].nCrt = 0 =>
      call[c].data = call[c].arg

\* An upsert has returned after the fallback and the caller's mapping holds
\* the key id that it did not hold at the call.
C36_IdLeftInMapping ==
  \E c \in DOMAIN call :
    /\ call[c].op = "upsert" /\ call[c].pc = "returned" /\ call[c].nCrt = 1
    /\ "id" \notin DOMAIN call[c].arg
    /\ call[c].data = Put(call[c].arg, "id", call[c].id)

\* C32: an upsert whose update call is answered not-found returns success
\* when the store has served its create call, and the entity is in the store
\* then, also when another upsert for the same id runs at the same time: two
\* upserts that both see not-found both return success, and the attributes
\* of the later write are in the store.
C32_NotFoundUpsertSucceeds ==
  \A c \in DOMAIN call :
    call[c].op = "upsert" /\ call[c].pc = "returned"
      /\ call[c].updStatus = StatusNotFound /\ call[c].crtStatus \notin FailureStatuses =>
        /\ call[c].res = "ok"
        /\ Holds(store, call[c].id, Without(call[c].arg, "type"))

\* The same for an upsert that no other call runs beside.
C32_AloneSucceeds ==
  \A c \in DOMAIN call :
    call[c].op = "upsert" /\ call[c].pc = "returned"
      /\ call[c].updStatus = StatusNotFound /\ call[c].crtStatus \notin FailureStatuses
      /\ (\A d \in DOMAIN call : d # c => call[d].pc = "idle") =>
        /\ call[c].res = "ok"
        /\ Holds(store, call[c].id, Without(call[c].arg, "type"))

\* Two upserts for one id have both seen not-found; the create of the first
\* was answered 201, the create of the second with the conflict, and the
\* second has returned an error, its attribute not being in the store.
C32_SecondUpsertFails ==
  \E c, d \in DOMAIN call :
    /\ c # d /\ call[c].id = call[d].id
    /\ call[c].op = "upsert" /\ call[d].op = "upsert"
    /\ call[c].pc = "returned" /\ call[d].pc = "returned"
    /\ call[c].updStatus = StatusNotFound /\ call[d].updStatus = StatusNotFound
    /\ call[c].crtStatus = StatusCreated /\ call[c].res = "ok"
    /\ call[d].crtStatus = 422 /\ call[d].res = "error"
    /\ "temperature" \in DOMAIN call[d].arg
    /\ ~Holds(store, call[d].id, call[d].arg)

\* The ticks of worker w's ticker that are in ticker.C.
PendingTicks(w) == IF w.tick THEN 1 ELSE 0

\* C33: the ticks that elapse while a pass runs are coalesced: the passes a
\* worker has started and the tick that is pending for it are never more
\* than one plus the ticks of its ticker elapsed, so k ticks during one pass
\* start at most one pass.
C33_TicksCoalesced ==
  \A g \in DOMAIN timed :
    timed[g].pc # "started" =>
      timed[g].passes + PendingTicks(timed[g]) <= 1 + timed[g].elapsed

\* Two ticks have elapsed during one pass of a worker; the pass after it has
\* begun when that pass ended and has ended in no time, and the worker waits
\* at its select with no tick pending: one of the two ticks started no pass.
C33_Witness ==
  \E g \in DOMAIN timed :
    /\ timed[g].pc = "select" /\ ~timed[g].tick
    /\ timed[g].passes >= 2
    /\ timed[g].elapsed >= timed[g].passes
    /\ timed[g].lastStart = timed[g].lastEnd /\ timed[g].lastEnd = now
    /\ timed[g].lastTick = now
    /\ TickDue(timed[g], now - timed[g].T)
    /\ timed[g].slow

\* ------------------------------------------ claims on the decoder's loop
\* p is complete frames of documented ids, one after the other, and nothing
\* else.
RECURSIVE IsFrameRow(_)
IsFrameRow(p) ==
  \/ p = << >>
  \/ /\ p[1] \in DocumentedIds
     /\ Len(p) >= DocumentedWidth(p[1])
     /\ IsFrameRow(SubSeq(p, DocumentedWidth(p[1]) + 1, Len(p)))

\* The k-th piece of the payload is a byte that is no documented id, the
\* pieces before it are complete frames, and the payload reaches it.
UnknownIdAtBoundary(k) ==
  /\ k \in 1..Len(pieces)
  /\ Len(pieces[k]) = 1 /\ pieces[k][1] \notin DocumentedIds
  /\ \A j \in 1..(k - 1) :
       pieces[j][1] \in DocumentedIds /\ Len(pieces[j]) = DocumentedWidth(pieces[j][1])
  /\ Len(payload) >= Len(Concat(SubSeq(pieces, 1, k)))

\* C34: decoding succeeds exactly when the payload is complete frames of
\* known ids one after the other; a byte that is no known id where a frame
\* begins, also after valid frames, makes it fail at that byte with "invalid
\* frame id", and a failed decoding returns no mapping.
C34_SucceedsIffFrameRow ==
  dec.pc = "returned" =>
    /\ (dec.err = "" /\ ~dec.isNil) <=> IsFrameRow(payload)
    /\ dec.err # "" => dec.isNil /\ dec.result = EmptyMap
    /\ \A k \in 1..Len(pieces) :
         UnknownIdAtBoundary(k) =>
           dec.err = "invalid frame id" /\ dec.iters = k - 1

\* C34's case: the first frame of the test, then the byte 0x07: the frame
\* was decoded, the byte was not stepped over, and nothing was returned.
C34_Witness ==
  /\ dec.pc = "returned"
  /\ pieces = <<TestFrame(1), <<7>> >> /\ payload = Concat(pieces)
  /\ UnknownIdAtBoundary(2)
  /\ dec.iters = 1 /\ Len(dec.rest) = 1
  /\ dec.isNil /\ dec.result = EmptyMap /\ dec.err = "invalid frame id"

\* C35: the decoder terminates: an iteration of its loop returns or takes at
\* least two bytes off the remaining payload, so that the iterations done
\* are at most half the bytes taken, and the call returns.
C35_DecoderTerminates ==
  /\ [](dec.pc # "off" =>
         /\ 2 * dec.iters <= Len(payload) - Len(dec.rest)
         /\ 2 * dec.iters <= Len(payload))
  /\ [][dec.pc = "loop" /\ dec' # dec =>
          \/ dec'.pc = "returned" /\ dec'.iters = dec.iters
          \/ /\ dec'.pc = "loop" /\ dec'.iters = dec.iters + 1
             /\ Len(dec'.rest) + 2 <= Len(dec.rest)]_vars
  /\ <>(dec.pc = "returned")

\* C35's case: two frames of two bytes each, decoded in two iterations, as
\* many as half the payload's length.
C35_Witness ==
  /\ dec.pc = "returned" /\ dec.err = ""
  /\ pieces = <<TestFrame(3), TestFrame(6)>> /\ Len(payload) = 4
  /\ dec.iters = 2 /\ Len(dec.rest) = 0

\* ------------------------------------------ claims on the two push handlers
\* C38: the status of the answer to a pushed request depends on the checks
\* of the request alone: an upload or a webhook request that passes them is
\* answered 200 after all its upserts were tried, whether they succeeded or
\* failed.
C38_StatusOfValidationOnly ==
  /\ upload.pc = "returned" /\ Authorized(upload.query) =>
       /\ upload.status = StatusOK
       /\ Len(upload.calls) = Len(UploadIds(uploadRev))
  /\ hook.pc = "returned" /\ HookChecksPass(hook.body) =>
       /\ hook.status = StatusOK
       /\ Len(hook.calls) = 1

\* C38's case: an accepted upload whose first upsert failed was answered 200
\* after the second upsert was made.
C38_Witness ==
  /\ uploadRev = "part_002" /\ upload.pc = "returned" /\ Authorized(upload.query)
  /\ Len(upload.calls) = 2
  /\ upload.calls[1].res = "error" /\ upload.calls[2].res = "ok"
  /\ upload.status = StatusOK

\* The same at the webhook: the upsert of a request that passed the checks
\* failed, and the request was answered 200.
C38_FailedWebhookUpsert ==
  /\ hook.pc = "returned" /\ HookChecksPass(hook.body)
  /\ Len(hook.calls) = 1 /\ hook.calls[1].res = "error"
  /\ hook.status = StatusOK

\* -------------------------------------------- claims on EnsureSubscription
\* The subscriptions of stored for url that the function created.
CreatedFor(stored, url) ==
  {n \in DOMAIN stored : stored[n].url = url /\ stored[n].by = "EnsureSubscription"}

\* The subscriptions of stored that notify url under notification.http.
NotifyingHttp(stored, url) ==
  {n \in DOMAIN stored : stored[n].url = url /\ stored[n].member = "http"}

\* C39: EnsureSubscription posts a subscription only when no subscription of
\* the store's listing has the url as its notification.http.url; so a call
\* that follows a successful call for the url adds no subscription for it,
\* and after any calls made one after the other the store holds at most one
\* subscription per url that the function created.
C39_AtMostOneSubscriptionPerUrl ==
  /\ [](subs.pc = "post" => NotifyingHttp(subs.stored, subs.url) = {})
  /\ [](subs.pc # "off" =>
         \A url \in NotifyUrls : Cardinality(CreatedFor(subs.stored, url)) <= 1)
  /\ [][subs.pc # "off" =>
          \A url \in subs.ensured :
            NotifyingHttp(subs'.stored, url) = NotifyingHttp(subs.stored, url)]_vars

\* C39's case: the first call for the url created its subscription, the
\* second call found it and returned without a POST.
C39_Witness ==
  /\ subs.pc = "idle" /\ subs.n = 2 /\ subs.posts = 1 /\ subs.err = ""
  /\ subs.url = QlNotifyUrl /\ QlNotifyUrl \in subs.ensured
  /\ subs.stored = <<Payload(QlNotifyUrl)>>
  /\ subs.listing = <<QlNotifyUrl>>

\* ------------------------------------------- claims on the sensors' start-up
\* C5: a bootstrap create that fails never ends start-up: the service ends
\* only for a missing variable, a pattern http.HandleFunc refuses or a failed
\* listen, and when it serves, every bootstrap create was made and both
\* handlers are registered.
C5_FailedBootstrapCreateDoesNotAbort ==
  /\ spc \in {"panicked", "fatal"} =>
       panicMsg \in {"Cannot lookup password", "Cannot lookup webhook url",
                     "http: invalid pattern", "http: multiple registrations",
                     "listen tcp :80"}
  /\ spc \in {"listen", "serving"} =>
       /\ handlers = {UploadPattern, env.THE_THINGS_NET_WEBHOOK_URL}
       /\ Cardinality(handlers) = 2
       /\ Len(bootLog) = Len(BresserEntities(sensorsRev)) + Len(SenseCapEntities(sensorsRev))

\* C5's case: the service serves although every bootstrap create failed, one
\* of them because the entity exists already.
C5_Witness ==
  /\ spc = "serving"
  /\ \A n \in DOMAIN bootLog : bootLog[n].res = "error"
  /\ \E n \in DOMAIN bootLog : bootLog[n].status = 422
  /\ \E n \in DOMAIN bootLog : bootLog[n].status = 500

====
